---- MODULE Spec2Model ----
(***************************************************************************)
(* A model of the ChRIS backend core: the Swift object-store client        *)
(* (core/storage/swiftmanager.py), the pipeline template tree and plan     *)
(* (pipelines/models.py) and the plugin-instance lineage with its output   *)
(* registration (plugininstances/models.py).                               *)
(*                                                                         *)
(* Strings are sequences of one-character strings, so that prefixes,       *)
(* path components and comma removal are computed, not assumed.            *)
(***************************************************************************)
EXTENDS Integers, Sequences, FiniteSets, TLC

VARIABLES
    \* ---- SwiftManager and the store behind it
    objects,        \* the container: object key -> contents
    conn,           \* self._conn is not None
    pc,             \* position of the caller inside the current SwiftManager call
    call,           \* the primitive operation being executed and its arguments
    i,              \* loop variable of the retry loop being executed
    attempts,       \* requests sent to the store by the current primitive call
    sleeps,         \* time.sleep(0.4) calls made by the current primitive call
    connTries,      \* Connection(**conn_params) calls made by the current call
    connSleeps,     \* time.sleep(0.4) calls of __get_connection in the current call
    fails,          \* transient failures the store answered to the current call
    result,         \* what the current primitive call returned or raised
    comp,           \* the composite (path-level) operation in progress, if any
    before,         \* the container as it was when the current call was made
    done,           \* the changing requests the store has served for the call
    \* ---- PluginInstance.register_output_files
    pollPc,         \* position inside register_output_files
    reported,       \* objectsReportedInSwift
    object_list,    \* object_list, as the names of the listed objects
    pollLoop,       \* pollLoop
    files,          \* the PluginInstanceFile rows saved, in order, by fname
    \* ---- Pipeline, PluginPiping and the default parameters of the pipings
    pipings,        \* the PluginPiping rows of the pipeline: id -> row
    defaults,       \* the DefaultPiping*Parameter rows of the pipeline
    pipePc,         \* which pipeline method was called
    pipingsOrder,   \* the order in which plugin_pipings.all() returned the rows
    defaultsOrder,  \* the list returned by get_default_parameters
    treeOut,        \* what get_pipings_tree returned
    planOut,        \* what get_plugin_tree returned
    checkOut,       \* what check_parameter_defaults returned or raised
    pipingSave,     \* the last PluginPiping.save call: the piping and its arguments
    \* ---- PluginInstance rows, their feeds and the walks over them
    insts,          \* the PluginInstance rows: id -> row
    feeds,          \* the Feed rows: id -> row
    lastSave,       \* the instance object of the last save() call
    outNode,        \* the instance get_output_path was last called on
    output_path,    \* what that call returned
    walkPc,         \* position inside get_root_instance / get_descendant_instances
    walkOp,         \* which of the two methods is running
    walkStart,      \* self
    current,        \* current (get_root_instance)
    steps,          \* how often the loop body of get_root_instance ran
    queue,          \* queue (get_descendant_instances)
    descendant_instances,   \* descendant_instances
    walkResult,     \* what the method returned or raised
    \* ---- several callers of one SwiftManager
    selfConn,       \* self._conn: 0 for None, else the number of the Connection
    connections,    \* the Connection objects built so far
    callerPc,       \* caller -> its position inside __get_connection
    callerI,        \* caller -> its loop variable i
    callerConn      \* caller -> the connection __get_connection returned to it

storeVars ==
    <<objects, conn, pc, call, i, attempts, sleeps, connTries, connSleeps, fails,
      result, comp, before, done>>

pollVars == <<pollPc, reported, object_list, pollLoop, files>>

pipeVars ==
    <<pipings, defaults, pipePc, pipingsOrder, defaultsOrder, treeOut, planOut,
      checkOut, pipingSave>>

linVars == <<insts, feeds, lastSave, outNode, output_path>>

walkVars ==
    <<walkPc, walkOp, walkStart, current, steps, queue, descendant_instances,
      walkResult>>

callerVars == <<selfConn, connections, callerPc, callerI, callerConn>>

vars == <<storeVars, pollVars, pipeVars, linVars, walkVars, callerVars>>

notStore == <<pollVars, pipeVars, linVars, walkVars, callerVars>>

notPoll == <<storeVars, pipeVars, linVars, walkVars, callerVars>>

notPipe == <<storeVars, pollVars, linVars, walkVars, callerVars>>

notLineage == <<storeVars, pollVars, pipeVars, walkVars, callerVars>>

\* a walk reads the rows and changes none
notWalk == <<storeVars, pollVars, pipeVars, linVars, callerVars>>

notCallers == <<storeVars, pollVars, pipeVars, linVars, walkVars>>

None == "None"

\* the callers that share one SwiftManager
NumCallers == 2

Callers == 1..NumCallers

\* ------------------------------------------------------------------------
\* The parts of the system that a specification leaves alone
\* ------------------------------------------------------------------------

NoResult == [kind |-> "none", value |-> None]

NoCall == [op |-> "none", path |-> <<>>, dest |-> <<>>, contents |-> None]

NoComp ==
    [op |-> "none", path |-> <<>>, dst |-> <<>>, l_ls |-> <<>>, idx |-> 0,
     phase |-> "none", new_obj_paths |-> <<>>, new_obj_path |-> <<>>]

\* no SwiftManager call is ever made
IdleStore ==
    /\ objects = <<>>
    /\ conn = FALSE
    /\ pc = "idle"
    /\ call = NoCall
    /\ i = 0
    /\ attempts = 0
    /\ sleeps = 0
    /\ connTries = 0
    /\ connSleeps = 0
    /\ fails = 0
    /\ result = NoResult
    /\ comp = NoComp
    /\ before = <<>>
    /\ done = <<>>

\* register_output_files is never called
IdlePoll ==
    /\ pollPc = "idle"
    /\ reported = 0
    /\ object_list = <<>>
    /\ pollLoop = 0
    /\ files = <<>>

NoPipingSave == [id |-> 0, parameter_defaults |-> <<>>]

\* no method of the pipeline is ever called; the pipeline has no piping
IdlePipe ==
    /\ pipings = <<>>
    /\ defaults = {}
    /\ pipePc = "idle"
    /\ pipingsOrder = <<>>
    /\ defaultsOrder = <<>>
    /\ treeOut = NoResult
    /\ planOut = NoResult
    /\ checkOut = NoResult
    /\ pipingSave = NoPipingSave

NoSave ==
    [id |-> 0, type |-> "none", previous |-> 0, feed |-> 0, saved |-> FALSE,
     feeds_created |-> 0, again |-> FALSE]

\* there is no plugin instance and no feed
IdleLineage ==
    /\ insts = <<>>
    /\ feeds = <<>>
    /\ lastSave = NoSave
    /\ outNode = 0
    /\ output_path = <<>>

\* no walk over the instances is ever made
IdleWalk ==
    /\ walkPc = "idle"
    /\ walkOp = "none"
    /\ walkStart = 0
    /\ current = 0
    /\ steps = 0
    /\ queue = <<>>
    /\ descendant_instances = <<>>
    /\ walkResult = NoResult

\* one SwiftManager without a connection, none of its callers inside a call
IdleCallers ==
    /\ selfConn = 0
    /\ connections = 0
    /\ callerPc = [c \in Callers |-> "idle"]
    /\ callerI = [c \in Callers |-> 0]
    /\ callerConn = [c \in Callers |-> 0]

\* ------------------------------------------------------------------------
\* Strings
\* ------------------------------------------------------------------------

\* Byte order of the characters used, as the store sorts its listings.
CharOrder ==
    <<" ", ",", ".", "/", "E", "I", "L", "N", "P", "S",
      "a", "b", "c", "p", "q", "t", "x", "z">>

Ord(c) == CHOOSE n \in 1..Len(CharOrder) : CharOrder[n] = c

\* str.startswith
StartsWith(s, p) == Len(p) <= Len(s) /\ SubSeq(s, 1, Len(p)) = p

\* s < t for two strings, compared as Python and the store compare them
RECURSIVE StrLess(_, _)
StrLess(s, t) ==
    IF t = <<>> THEN FALSE
    ELSE IF s = <<>> THEN TRUE
    ELSE IF Head(s) # Head(t) THEN Ord(Head(s)) < Ord(Head(t))
    ELSE StrLess(Tail(s), Tail(t))

\* the strings of a finite set in ascending order
RECURSIVE SortedSeq(_)
SortedSeq(S) ==
    IF S = {} THEN <<>>
    ELSE LET m == CHOOSE x \in S : \A y \in S \ {x} : StrLess(x, y)
         IN  <<m>> \o SortedSeq(S \ {m})

\* str.replace(',', '')
RemoveCommas(s) == SelectSeq(s, LAMBDA c : c # ",")

\* s.strip() == ''
IsBlank(s) == \A n \in 1..Len(s) : s[n] = " "

\* s.lstrip('/')
RECURSIVE LStripSlash(_)
LStripSlash(s) ==
    IF s # <<>> /\ Head(s) = "/" THEN LStripSlash(Tail(s)) ELSE s

\* s.split('/')
RECURSIVE SplitSlash(_)
SplitSlash(s) ==
    IF \A n \in 1..Len(s) : s[n] # "/" THEN <<s>>
    ELSE LET n == CHOOSE m \in 1..Len(s) :
                      s[m] = "/" /\ \A l \in 1..(m - 1) : s[l] # "/"
         IN  <<SubSeq(s, 1, n - 1)>> \o SplitSlash(SubSeq(s, n + 1, Len(s)))

\* pathlib: Path(s).parts for a relative POSIX path; empty and '.' components
\* are dropped when a path is parsed
PathParts(s) == SelectSeq(SplitSlash(s), LAMBDA c : c # <<>> /\ c # <<".">>)

\* pathlib: Path(*parts); every argument is parsed again
RECURSIVE PathOf(_)
PathOf(args) ==
    IF args = <<>> THEN <<>> ELSE PathParts(Head(args)) \o PathOf(Tail(args))

\* pathlib: str(path) of a path given by its parts
RECURSIVE JoinParts(_)
JoinParts(parts) ==
    IF parts = <<>> THEN <<".">>
    ELSE IF Len(parts) = 1 THEN parts[1]
    ELSE parts[1] \o <<"/">> \o JoinParts(Tail(parts))

\* pathlib: Path(s).name
PathName(s) ==
    LET parts == PathParts(s) IN IF parts = <<>> THEN <<>> ELSE parts[Len(parts)]

\* ------------------------------------------------------------------------
\* SwiftManager: the primitive operations and their retry loops
\* ------------------------------------------------------------------------

\* for i in range(5)
RetryRange == 5

\* if i == 4: raise
LastTry == 4

Returned(v) == [kind |-> "return", value |-> v]

Raised == [kind |-> "raise", value |-> "ClientException"]

\* the operations that run a retry loop around one request to the store
LoopOps ==
    {"ls", "path_exists", "obj_exists", "upload_obj", "download_obj",
     "copy_obj", "delete_obj"}

PrimOps == LoopOps \cup {"create_container"}

\* the operations whose request changes the container
ChangingOps == {"upload_obj", "copy_obj", "delete_obj"}

\* conn.get_container(container, prefix=path)[1], as names: the keys that
\* start with the prefix, in the store's (sorted) order
ListContainer(path) ==
    SortedSeq({k \in DOMAIN objects : StartsWith(k, path)})

\* What the store can answer to one request: success, a definitive 404 when
\* the object a HEAD/GET/COPY/DELETE names does not exist, or another error.
StoreAnswers(op, path) ==
    IF op \in {"obj_exists", "download_obj", "copy_obj", "delete_obj"}
       /\ path \notin DOMAIN objects
    THEN {"404", "error"}
    ELSE {"ok", "error"}

\* the container after a successful request
StoreAfter(c) ==
    CASE c.op = "upload_obj" ->
             [k \in DOMAIN objects \cup {c.path} |->
                 IF k = c.path THEN c.contents ELSE objects[k]]
      [] c.op = "copy_obj" ->
             LET dest == LStripSlash(c.dest)
             IN  [k \in DOMAIN objects \cup {dest} |->
                     IF k = dest THEN objects[c.path] ELSE objects[k]]
      [] c.op = "delete_obj" ->
             [k \in DOMAIN objects \ {c.path} |-> objects[k]]
      [] OTHER -> objects

\* what the call returns after a successful request
ValueOf(c) ==
    CASE c.op = "ls" -> ListContainer(c.path)
      [] c.op = "path_exists" -> Len(ListContainer(c.path)) > 0
      [] c.op = "obj_exists" -> TRUE
      [] c.op = "download_obj" -> objects[c.path]
      [] OTHER -> None

\* what the call returns when its for loop runs out without return or raise
FallThrough(c) ==
    CASE c.op = "ls" -> <<>>
      [] c.op = "path_exists" -> FALSE
      [] OTHER -> None

\* a give-up test that is off by one: the loop runs out before it raises
GiveUpOffByOne(n) == n = LastTry + 1

\* except ClientException ... if i == 4: raise
GiveUp(n) == n = LastTry

\* a client that does not keep its connection
IsConnectedNever(c) == FALSE

\* __get_connection: if self._conn is not None: return self._conn
IsConnected(c) == c

\* the entry of a primitive: _ls answers an empty path itself, every other
\* call first asks __get_connection for the connection
\* a test that takes every path, the empty one too, as given
HasPathAlways(path) == TRUE

\* _ls: if path -- the empty string is false
HasPath(path) == path # <<>>

StartPrim(op, path, dest, contents) ==
    /\ call' = [op |-> op, path |-> path, dest |-> dest, contents |-> contents]
    /\ i' = 0
    /\ attempts' = 0
    /\ sleeps' = 0
    /\ connTries' = 0
    /\ connSleeps' = 0
    /\ fails' = 0
    /\ IF op \in {"ls", "path_exists"} /\ ~HasPath(path)
       THEN /\ pc' = "ret"
            /\ result' = Returned(FallThrough([op |-> op]))
       ELSE /\ pc' = IF IsConnected(conn) THEN "attempt" ELSE "connect"
            /\ result' = NoResult

\* __get_connection: one pass of its loop, Connection(**conn_params)
Connect ==
    /\ pc = "connect"
    /\ connTries' = connTries + 1
    /\ \E ok \in BOOLEAN :
         IF ok
         THEN /\ conn' = TRUE
              /\ pc' = "attempt"
              /\ i' = 0
              /\ UNCHANGED <<result, connSleeps>>
         ELSE /\ UNCHANGED conn
              /\ IF GiveUp(i)
                 THEN /\ pc' = "ret"
                      /\ result' = Raised
                      /\ UNCHANGED <<i, connSleeps>>
                 ELSE /\ pc' = "connect"
                      /\ i' = i + 1
                      /\ connSleeps' = connSleeps + 1
                      /\ UNCHANGED result
    /\ UNCHANGED <<objects, call, attempts, sleeps, fails, comp, before, done>>
    /\ UNCHANGED notStore

\* a 404 that is handled like every other failure of the request
IsDefinitiveNever(op, ans) == FALSE

\* obj_exists: if e.http_status == 404: return False
IsDefinitive(op, ans) == op = "obj_exists" /\ ans = "404"

\* one pass of the loop of a primitive: the request and what follows it.
\* fails counts the requests that failed; the 404 that answers the HEAD of
\* obj_exists for an absent object is an answer, not a failure.
Attempt ==
    /\ pc = "attempt"
    /\ \E ans \in StoreAnswers(call.op, call.path) :
         /\ attempts' = attempts + 1
         /\ done' = IF ans = "ok" /\ call.op \in ChangingOps
                    THEN Append(done, [op |-> call.op, path |-> call.path,
                                       dest |-> LStripSlash(call.dest)])
                    ELSE done
         /\ fails' = IF ans = "ok" \/ (ans = "404" /\ call.op = "obj_exists")
                     THEN fails ELSE fails + 1
         /\ IF ans = "ok"
            THEN /\ objects' = StoreAfter(call)
                 /\ result' = Returned(ValueOf(call))
                 /\ pc' = "ret"
                 /\ UNCHANGED <<i, sleeps>>
            ELSE IF IsDefinitive(call.op, ans)
            THEN /\ result' = Returned(FALSE)
                 /\ pc' = "ret"
                 /\ UNCHANGED <<objects, i, sleeps>>
            ELSE /\ UNCHANGED objects
                 /\ IF call.op = "create_container" \/ GiveUp(i)
                    THEN pc' = "ret" /\ result' = Raised /\ UNCHANGED <<i, sleeps>>
                    ELSE /\ sleeps' = sleeps + 1
                         /\ i' = i + 1
                         /\ IF i + 1 < RetryRange
                            THEN pc' = "attempt" /\ UNCHANGED result
                            ELSE pc' = "ret" /\ result' = Returned(FallThrough(call))
    /\ UNCHANGED <<conn, call, comp, before, connTries, connSleeps>>
    /\ UNCHANGED notStore

\* the caller takes the result of a finished call
Return ==
    /\ pc = "ret"
    /\ comp.op = "none" \/ comp.phase \in {"finished", "raised"}
    /\ pc' = "idle"
    /\ call' = NoCall
    /\ comp' = NoComp
    /\ before' = <<>>
    /\ done' = <<>>
    /\ result' = NoResult
    /\ i' = 0
    /\ attempts' = 0
    /\ sleeps' = 0
    /\ connTries' = 0
    /\ connSleeps' = 0
    /\ fails' = 0
    /\ UNCHANGED <<objects, conn>>
    /\ UNCHANGED notStore

\* ---- the client used on its own: any sequence of primitive calls

Contents == {"c1", "c2"}

StoreKeys == {<<"p", "/", "a">>, <<"p", "/", "b">>, <<"q">>}

ArgPaths == StoreKeys \cup {<<>>, <<"p">>, <<"z">>}

\* a caller invokes one primitive operation of the client
CallPrimitive ==
    /\ pc = "idle"
    /\ \E op \in PrimOps :
         \E path \in (IF op = "create_container" THEN {<<>>}
                      ELSE IF op \in {"ls", "path_exists"} THEN ArgPaths
                      ELSE StoreKeys) :
           \E dest \in (IF op = "copy_obj" THEN StoreKeys ELSE {<<>>}) :
             \E contents \in (IF op = "upload_obj" THEN Contents ELSE {None}) :
               StartPrim(op, path, dest, contents)
    /\ before' = objects
    /\ done' = <<>>
    /\ UNCHANGED <<objects, conn, comp>>
    /\ UNCHANGED notStore

InitStore ==
    /\ IdlePoll
    /\ IdlePipe
    /\ IdleLineage
    /\ IdleWalk
    /\ IdleCallers
    /\ objects = <<>>
    /\ conn = FALSE
    /\ pc = "idle"
    /\ call = NoCall
    /\ i = 0
    /\ attempts = 0
    /\ sleeps = 0
    /\ connTries = 0
    /\ connSleeps = 0
    /\ fails = 0
    /\ result = NoResult
    /\ comp = NoComp
    /\ before = <<>>
    /\ done = <<>>

NextStore == CallPrimitive \/ Connect \/ Attempt \/ Return

SpecStore == InitStore /\ [][NextStore]_vars

\* ------------------------------------------------------------------------
\* Properties of the retry loops
\* ------------------------------------------------------------------------

\* the state the container is expected to be in, or the value expected,
\* after the primitive call c returned normally
ExpectedOutcome(c, v) ==
    CASE c.op = "ls" ->
             /\ {v[n] : n \in 1..Len(v)} = {k \in DOMAIN objects : StartsWith(k, c.path)}
             /\ \A m, n \in 1..Len(v) : m < n => StrLess(v[m], v[n])
      [] c.op = "path_exists" ->
             v = (\E k \in DOMAIN objects : StartsWith(k, c.path))
      [] c.op = "obj_exists" -> v = (c.path \in DOMAIN objects)
      [] c.op = "download_obj" -> c.path \in DOMAIN objects /\ v = objects[c.path]
      [] c.op = "upload_obj" -> c.path \in DOMAIN objects /\ objects[c.path] = c.contents
      [] c.op = "copy_obj" ->
             /\ {c.path, c.dest} \subseteq DOMAIN objects
             /\ objects[c.dest] = objects[c.path]
      [] c.op = "delete_obj" -> c.path \notin DOMAIN objects
      [] OTHER -> FALSE

\* C1: a primitive with a retry loop (ls, path_exists, obj_exists, upload_obj,
\* download_obj, copy_obj, delete_obj) that reached its loop never sends more
\* than 5 requests; when it returns, the store failed k <= 4 times, it sent
\* k+1 requests, slept k times and the result is the correct one; when it
\* raises, the store failed 5 times, it sent 5 requests and slept 4 times; it
\* ends in no other way.
C1_RetryPolicy ==
    /\ attempts <= 5
    /\ (pc = "ret" /\ call.op \in LoopOps /\ attempts > 0) =>
         /\ result.kind \in {"return", "raise"}
         /\ result.kind = "return" =>
              /\ fails <= 4
              /\ attempts = fails + 1
              /\ sleeps = fails
              /\ ExpectedOutcome(call, result.value)
         /\ result.kind = "raise" =>
              /\ fails = 5
              /\ attempts = 5
              /\ sleeps = 4

\* C1 witness: path_exists found the prefix after 4 failures and 4 sleeps
C1_Witness ==
    /\ pc = "ret"
    /\ call.op = "path_exists"
    /\ result.kind = "return"
    /\ result.value = TRUE
    /\ fails = 4
    /\ sleeps = 4
    /\ attempts = 5

\* ------------------------------------------------------------------------
\* PluginInstance.register_output_files
\* ------------------------------------------------------------------------

\* maxPolls = 20
maxPolls == 20

\* the most objects the store ever lists under the output path
MaxListed == 3

\* the most files pfcon reports as pushed (filesPushed)
MaxReported == 3

\* the names of the first n objects under the output path
Listing(n) == [k \in 1..n |-> k]

\* a loop test that lets the loop run once more: pollLoop <= maxPolls
KeepPollingOnceMore(listed, expected, polls) ==
    listed <= expected /\ polls <= maxPolls

\* while len(object_list) <= objectsReportedInSwift and pollLoop < maxPolls
KeepPolling(listed, expected, polls) == listed <= expected /\ polls < maxPolls

\* the call, up to the loop: objectsReportedInSwift is filesPushed when
\* swiftState carries d_swiftstore, and 0 when it does not
RegisterCall ==
    /\ pollPc = "idle"
    /\ \E filesPushed \in 0..MaxReported : reported' = filesPushed
    /\ object_list' = <<>>
    /\ pollLoop' = 0
    /\ pollPc' = "polling"
    /\ UNCHANGED files
    /\ UNCHANGED notPoll

\* one pass of the polling loop: the store, which is only eventually
\* consistent, lists some of the objects, or the request fails
Poll ==
    /\ pollPc = "polling"
    /\ KeepPolling(Len(object_list), reported, pollLoop)
    /\ \/ /\ \E n \in 0..MaxListed : object_list' = Listing(n)
          /\ pollLoop' = pollLoop + 1
          /\ UNCHANGED pollPc
       \/ /\ pollPc' = "raised"
          /\ UNCHANGED <<object_list, pollLoop>>
    /\ UNCHANGED <<reported, files>>
    /\ UNCHANGED notPoll

\* the loop is left: one PluginInstanceFile is saved per listed object and
\* the summary is returned
Register ==
    /\ pollPc = "polling"
    /\ ~KeepPolling(Len(object_list), reported, pollLoop)
    /\ files' = files \o object_list
    /\ pollPc' = "done"
    /\ UNCHANGED <<reported, object_list, pollLoop>>
    /\ UNCHANGED notPoll

InitPoll ==
    IdleStore /\ IdlePoll /\ IdlePipe /\ IdleLineage /\ IdleWalk /\ IdleCallers

NextPoll == RegisterCall \/ Poll \/ Register

SpecPoll == InitPoll /\ [][NextPoll]_vars

\* C2: once a poll has listed at least objectsReportedInSwift objects, the
\* next step of register_output_files is not another poll: it registers the
\* listed objects.
C2_StopsAtExpectedCount ==
    [][(pollPc = "polling" /\ pollLoop > 0 /\ Len(object_list) >= reported)
         => (pollLoop' = pollLoop /\ pollPc' = "done"
             /\ files' = files \o object_list)]_vars

\* ------------------------------------------------------------------------
\* Pipeline: the tree of pipings and the plugin tree (the execution plan)
\* ------------------------------------------------------------------------

\* the number of pipings of the pipeline
NumPipings == 4

PipingIds == 1..NumPipings

\* the plugins a piping can refer to: id, type and parameter names
Plugins ==
    [fs_dir  |-> [id |-> 1, type |-> "fs",
                  params |-> <<[name |-> "dir", type |-> "string"]>>],
     fs_bare |-> [id |-> 2, type |-> "fs", params |-> <<>>],
     ds_a    |-> [id |-> 3, type |-> "ds",
                  params |-> <<[name |-> "a", type |-> "integer"]>>],
     ds_bare |-> [id |-> 4, type |-> "ds", params |-> <<>>],
     ts_join |-> [id |-> 5, type |-> "ts",
                  params |-> <<[name |-> "plugininstances", type |-> "string"]>>],
     ds_xy   |-> [id |-> 6, type |-> "ds",
                  params |-> <<[name |-> "x", type |-> "integer"],
                               [name |-> "y", type |-> "string"]>>]]

Digits == <<"1", "2", "3", "4", "5", "6", "7", "8", "9">>

\* str(n) for a one-digit number
StrOf(n) == <<Digits[n]>>

\* int(s) for a one-digit string
IntOf(s) == CHOOSE n \in 1..Len(Digits) : <<Digits[n]>> = s

\* PluginPiping.title of the piping with the given id; titles are unique
\* within the pipeline
Title(id) == <<"t">> \o StrOf(id)

\* None where a title is expected
NoTitle == <<>>

\* s.split(',')
RECURSIVE SplitComma(_)
SplitComma(s) ==
    IF \A n \in 1..Len(s) : s[n] # "," THEN <<s>>
    ELSE LET n == CHOOSE m \in 1..Len(s) :
                      s[m] = "," /\ \A l \in 1..(m - 1) : s[l] # ","
         IN  <<SubSeq(s, 1, n - 1)>> \o SplitComma(SubSeq(s, n + 1, Len(s)))

\* ','.join(strs)
RECURSIVE JoinComma(_)
JoinComma(strs) ==
    IF strs = <<>> THEN <<>>
    ELSE IF Len(strs) = 1 THEN strs[1]
    ELSE strs[1] \o <<",">> \o JoinComma(Tail(strs))

\* all the orders in which the elements of a finite set can be listed
RECURSIVE Perms(_)
Perms(S) ==
    IF S = {} THEN {<<>>}
    ELSE UNION {{<<x>> \o q : q \in Perms(S \ {x})} : x \in S}

\* d[k] = v on a dict
DictPut(d, k, v) == [x \in DOMAIN d \cup {k} |-> IF x = k THEN v ELSE d[x]]

RaisedError(name) == [kind |-> "raise", value |-> name]

\* ---- get_pipings_tree

\* root_pip = [pip for pip in pipings if not pip.previous][0]
RootPip(order) ==
    LET roots == SelectSeq(order, LAMBDA id : pipings[id].previous = 0)
    IN  IF roots = <<>> THEN 0 ELSE roots[1]

\* the body of the loop over the pipings, for the piping pip
TreeVisit(tree, pip) ==
    IF pip \in DOMAIN tree THEN tree
    ELSE LET withPip == DictPut(tree, pip, [piping |-> pip, child_ids |-> <<>>])
             prev_id == pipings[pip].previous
         IN  IF prev_id \in DOMAIN withPip
             THEN [withPip EXCEPT ![prev_id].child_ids = Append(@, pip)]
             ELSE DictPut(withPip, prev_id,
                          [piping |-> prev_id, child_ids |-> <<pip>>])

RECURSIVE TreeLoop(_, _, _)
TreeLoop(tree, order, k) ==
    IF k > Len(order) THEN tree
    ELSE TreeLoop(TreeVisit(tree, order[k]), order, k + 1)

\* Pipeline.get_pipings_tree, with plugin_pipings.all() returning the
\* pipings in the given order
get_pipings_tree(order) ==
    LET root_id == RootPip(order)
    IN  IF root_id = 0 THEN RaisedError("IndexError")
        ELSE Returned(
                 [root_id |-> root_id,
                  tree |-> TreeLoop(
                      DictPut(<<>>, root_id,
                              [piping |-> root_id, child_ids |-> <<>>]),
                      order, 1)])

\* ---- get_plugin_tree

\* the first loop: one descriptor per piping title found in the default
\* parameters, in the order of first appearance; keys is the key order of
\* tree_nodes_dict
RECURSIVE CollectNodes(_, _, _)
CollectNodes(acc, recs, k) ==
    IF k > Len(recs) THEN acc
    ELSE
      LET default_param == recs[k]
          piping == pipings[default_param.piping]
          title == Title(default_param.piping)
          acc1 ==
            IF title \in DOMAIN acc.tree_nodes_dict THEN acc
            ELSE [keys |-> Append(acc.keys, title),
                  tree_nodes_dict |->
                      DictPut(acc.tree_nodes_dict, title,
                          [plugin_id |-> Plugins[piping.plugin].id,
                           previous |-> IF piping.previous # 0
                                        THEN Title(piping.previous) ELSE NoTitle,
                           title |-> title,
                           plugin_parameter_defaults |-> <<>>]),
                  id_to_title |->
                      DictPut(acc.id_to_title, default_param.piping, title),
                  is_ts_dict |->
                      DictPut(acc.is_ts_dict, title,
                              Plugins[piping.plugin].type = "ts")]
      IN  CollectNodes(
              [acc1 EXCEPT !.tree_nodes_dict[title].plugin_parameter_defaults =
                  Append(@, [name |-> default_param.param,
                             default |-> default_param.value])],
              recs, k + 1)

\* the 'ts' branch of the second loop: the first default named
\* plugininstances, when it is not empty, is rewritten from ids to titles;
\* an id that is not a key of id_to_title is a KeyError
RewriteTs(acc, title) ==
    LET ds == acc.tree_nodes_dict[title].plugin_parameter_defaults
        hits == {n \in 1..Len(ds) : ds[n].name = "plugininstances"}
    IN  IF hits = {} THEN acc
        ELSE LET n == CHOOSE m \in hits : \A l \in hits : m <= l
                 default == ds[n].default
                 ids == SplitComma(default)
             IN  IF default = <<>> THEN acc
                 ELSE IF \E m \in 1..Len(ids) :
                            IntOf(ids[m]) \notin DOMAIN acc.id_to_title
                 THEN [acc EXCEPT !.error = "KeyError"]
                 ELSE
                   LET parent_titles ==
                         [m \in 1..Len(ids) |-> acc.id_to_title[IntOf(ids[m])]]
                   IN  [acc EXCEPT
                           !.tree_nodes_dict[title].plugin_parameter_defaults[n].default =
                               JoinComma(parent_titles)]

\* the tree branch of the second loop: the title is entered under its
\* previous title, which is entered first if it is not yet a key
PlanVisit(acc, title) ==
    IF title \in DOMAIN acc.tree THEN acc
    ELSE LET withTitle == DictPut(acc.tree, title, <<>>)
             prev_title == acc.tree_nodes_dict[title].previous
         IN  [acc EXCEPT !.tree =
                 IF prev_title \in DOMAIN withTitle
                 THEN [withTitle EXCEPT ![prev_title] = Append(@, title)]
                 ELSE DictPut(withTitle, prev_title, <<title>>)]

RECURSIVE PlanLoop(_, _)
PlanLoop(acc, k) ==
    IF k > Len(acc.keys) \/ acc.error # None THEN acc
    ELSE LET title == acc.keys[k]
             acc1 == IF acc.is_ts_dict[title] THEN RewriteTs(acc, title) ELSE acc
         IN  IF acc1.error # None THEN acc1
             ELSE PlanLoop(PlanVisit(acc1, title), k + 1)

\* a traversal that takes the newest title of the queue: queue.pop()
PopRight(dq) == Len(dq)

\* queue.popleft(): the position of the title taken from the queue
PopLeft(dq) == 1

\* the breadth-first traversal that orders the descriptors
RECURSIVE Traverse(_, _, _)
Traverse(plugin_tree, dq, acc) ==
    IF dq = <<>> THEN plugin_tree
    ELSE LET n == PopLeft(dq)
             curr_title == dq[n]
             rest == SubSeq(dq, 1, n - 1) \o SubSeq(dq, n + 1, Len(dq))
         IN  Traverse(Append(plugin_tree, acc.tree_nodes_dict[curr_title]),
                      rest \o acc.tree[curr_title], acc)

\* Pipeline.get_plugin_tree, with get_default_parameters returning recs
get_plugin_tree(recs) ==
    LET nodes == CollectNodes(
                     [keys |-> <<>>, tree_nodes_dict |-> <<>>,
                      id_to_title |-> <<>>, is_ts_dict |-> <<>>], recs, 1)
        roots == SelectSeq(nodes.keys,
                     LAMBDA t : nodes.tree_nodes_dict[t].previous = NoTitle)
    IN  IF roots = <<>> THEN RaisedError("IndexError")
        ELSE
          LET root_title == roots[1]
              acc == PlanLoop(
                         [keys |-> nodes.keys,
                          tree_nodes_dict |-> nodes.tree_nodes_dict,
                          id_to_title |-> nodes.id_to_title,
                          is_ts_dict |-> nodes.is_ts_dict,
                          tree |-> DictPut(<<>>, root_title, <<>>),
                          error |-> None], 1)
          IN  IF acc.error # None THEN RaisedError(acc.error)
              ELSE Returned(Traverse(<<acc.tree_nodes_dict[root_title]>>,
                                     acc.tree[root_title], acc))

\* ---- the pipelines and the calls

\* the values a default parameter can have; a 'ts' piping joins the root
\* and its previous piping, or nothing
DefaultValues(param, previous) ==
    IF param = "plugininstances"
    THEN {<<>>, StrOf(1) \o <<",">> \o StrOf(previous)}
    ELSE {<<"5">>}

\* the rows a piping with the given id can have in a valid pipeline: piping
\* 1 is the root and runs an 'fs' plugin, every other piping was created
\* after its previous piping and runs a 'ds' or a 'ts' plugin
PipingRows(id) ==
    IF id = 1
    THEN [previous : {0}, plugin : {"fs_dir", "fs_bare"}]
    ELSE [previous : 1..(id - 1), plugin : {"ds_a", "ds_bare", "ts_join"}]

\* the valid pipelines with pipings 1..n
RECURSIVE PipingsUpTo(_)
PipingsUpTo(n) ==
    IF n = 0 THEN {<<>>}
    ELSE {DictPut(ps, n, row) : ps \in PipingsUpTo(n - 1), row \in PipingRows(n)}

\* the (piping, parameter) pairs that have a default row, one for every
\* parameter of the plugin of every piping
DefaultKeys(ps) ==
    UNION {{<<id, Plugins[ps[id].plugin].params[n]>> :
               n \in 1..Len(Plugins[ps[id].plugin].params)} : id \in DOMAIN ps}

\* the sets of default rows a valid pipeline can have
DefaultRows(ps) ==
    LET keys == DefaultKeys(ps)
        values == UNION {DefaultValues(k[2].name, ps[k[1]].previous) : k \in keys}
    IN  {{[piping |-> k[1], param |-> k[2].name, type |-> k[2].type,
           value |-> f[k]] : k \in keys} :
            f \in {g \in [keys -> values] :
                     \A k \in keys :
                         g[k] \in DefaultValues(k[2].name, ps[k[1]].previous)}}

\* Pipeline.get_default_parameters: the string rows, then the integer rows
\* (no plugin here has float or boolean parameters), each query in an order
\* the database chooses
DefaultParameterLists ==
    {strs \o ints :
        strs \in Perms({d \in defaults : d.type = "string"}),
        ints \in Perms({d \in defaults : d.type = "integer"})}

InitPipeline ==
    /\ IdleStore
    /\ IdlePoll
    /\ IdleLineage
    /\ IdleWalk
    /\ IdleCallers
    /\ pipings \in PipingsUpTo(NumPipings)
    /\ defaults \in DefaultRows(pipings)
    /\ pipePc = "idle"
    /\ pipingsOrder = <<>>
    /\ defaultsOrder = <<>>
    /\ treeOut = NoResult
    /\ planOut = NoResult
    /\ checkOut = NoResult
    /\ pipingSave = NoPipingSave

\* a call of get_pipings_tree
GetPipingsTree ==
    /\ pipePc = "idle"
    /\ \E order \in Perms(DOMAIN pipings) :
         /\ pipingsOrder' = order
         /\ treeOut' = get_pipings_tree(order)
    /\ pipePc' = "get_pipings_tree"
    /\ UNCHANGED <<pipings, defaults, defaultsOrder, planOut, checkOut, pipingSave>>
    /\ UNCHANGED notPipe

\* a call of get_plugin_tree
GetPluginTree ==
    /\ pipePc = "idle"
    /\ \E recs \in DefaultParameterLists :
         /\ defaultsOrder' = recs
         /\ planOut' = get_plugin_tree(recs)
    /\ pipePc' = "get_plugin_tree"
    /\ UNCHANGED <<pipings, defaults, pipingsOrder, treeOut, checkOut, pipingSave>>
    /\ UNCHANGED notPipe

NextPipeline == GetPipingsTree \/ GetPluginTree

SpecPipeline == InitPipeline /\ [][NextPipeline]_vars

\* ------------------------------------------------------------------------
\* Properties of the tree and of the plan
\* ------------------------------------------------------------------------

\* the elements of a sequence
Range(seq) == {seq[n] : n \in 1..Len(seq)}

\* the pipings whose previous is the piping id
ChildrenOf(id) == {q \in DOMAIN pipings : pipings[q].previous = id}

\* the piping that has the title t
IdOfTitle(t) == CHOOSE id \in DOMAIN pipings : Title(id) = t

\* the distance of a piping from the root
RECURSIVE DepthOf(_)
DepthOf(id) ==
    IF pipings[id].previous = 0 THEN 0 ELSE 1 + DepthOf(pipings[id].previous)

\* the position of the first default row of a piping in a list of rows
FirstRow(recs, id) ==
    CHOOSE n \in 1..Len(recs) :
        recs[n].piping = id /\ \A m \in 1..(n - 1) : recs[m].piping # id

\* C3: whatever the order in which the pipings are iterated, get_pipings_tree
\* returns the root of the template and, for every piping, an entry whose
\* child_ids are exactly the pipings whose previous is that piping.
C3_TreeForEveryOrder ==
    pipePc = "get_pipings_tree" =>
        /\ treeOut.kind = "return"
        /\ pipings[treeOut.value.root_id].previous = 0
        /\ DOMAIN treeOut.value.tree = DOMAIN pipings
        /\ \A id \in DOMAIN pipings :
               /\ Range(treeOut.value.tree[id].child_ids) = ChildrenOf(id)
               /\ Len(treeOut.value.tree[id].child_ids) = Cardinality(ChildrenOf(id))

\* C4: whatever the parameters of the plugins and the order of the default
\* rows, get_plugin_tree returns a plan in which every piping of the
\* template appears exactly once.
C4_PlanHasEveryPiping ==
    pipePc = "get_plugin_tree" =>
        /\ planOut.kind = "return"
        /\ Len(planOut.value) = Cardinality(DOMAIN pipings)
        /\ {planOut.value[n].title : n \in 1..Len(planOut.value)} =
               {Title(id) : id \in DOMAIN pipings}

\* C5: a plan returned by get_plugin_tree is in breadth-first order: the
\* root descriptor comes first, no descriptor appears twice, depths never
\* decrease, the previous of every later descriptor is the title of an
\* earlier one, and descriptors with the same previous appear in the order
\* in which they were enqueued (the order of their first default rows).
C5_PlanIsBreadthFirst ==
    (pipePc = "get_plugin_tree" /\ planOut.kind = "return") =>
        LET plan == planOut.value
            id(n) == IdOfTitle(plan[n].title)
        IN  /\ plan # <<>>
            /\ plan[1].previous = NoTitle
            /\ \A m, n \in 1..Len(plan) : m < n =>
                   /\ plan[m].title # plan[n].title
                   /\ DepthOf(id(m)) <= DepthOf(id(n))
                   /\ plan[m].previous = plan[n].previous =>
                          FirstRow(defaultsOrder, id(m)) < FirstRow(defaultsOrder, id(n))
            /\ \A n \in 2..Len(plan) :
                   \E m \in 1..(n - 1) : plan[m].title = plan[n].previous

\* C5 witness: a plan of all the pipings in which a piping at depth 2
\* follows two pipings that share their previous
C5_Witness ==
    /\ pipePc = "get_plugin_tree"
    /\ planOut.kind = "return"
    /\ Len(planOut.value) = NumPipings
    /\ \E l, m, n \in 1..Len(planOut.value) :
           /\ l < m /\ m < n
           /\ planOut.value[l].previous = planOut.value[m].previous
           /\ DepthOf(IdOfTitle(planOut.value[n].title)) = 2

\* ------------------------------------------------------------------------
\* PluginInstance: walks over the previous / next links
\* ------------------------------------------------------------------------

\* the number of plugin instances in the database
NumNodes == 3

\* the loop count of get_root_instance is followed up to this value
StepCap == NumNodes + 2

\* get_descendant_instances is followed until it has visited this many
VisitCap == NumNodes + 2

\* STATUS_TYPES
STATUS_TYPES ==
    <<"started", "finishedSuccessfully", "finishedWithError", "cancelled">>

\* The rows a database can hold when nothing is assumed about the previous
\* links: an instance with a previous runs a 'ds' plugin, and the links may
\* form cycles; an instance without one runs an 'fs' or a 'ds' plugin.
AnyRows ==
    [type : {"fs"}, previous : {0}]
        \cup [type : {"ds"}, previous : 0..NumNodes]

AnyInsts ==
    {[id \in 1..NumNodes |->
         [type |-> rows[id].type, name |-> rows[id].type,
          previous |-> rows[id].previous, feed |-> 1, owner |-> "u1",
          status |-> STATUS_TYPES[1]]] : rows \in [1..NumNodes -> AnyRows]}

\* list(visited.next.all()): the instances whose previous is the instance
\* id, newest first (Meta.ordering is -start_date)
RECURSIVE Descending(_)
Descending(S) ==
    IF S = {} THEN <<>>
    ELSE LET m == CHOOSE x \in S : \A y \in S : y <= x
         IN  <<m>> \o Descending(S \ {m})

\* only the newest of the next instances: visited.next.first()
NextOfNewestOnly(id) ==
    LET all == Descending({n \in DOMAIN insts : insts[n].previous = id})
    IN  IF all = <<>> THEN <<>> ELSE <<all[1]>>

NextOf(id) == Descending({n \in DOMAIN insts : insts[n].previous = id})

\* a loop test without its `not`: while current.plugin.type == 'fs'
IsRootInverted(row) == row.type # "fs"

\* the walk stops at: current.plugin.type == 'fs'
IsRoot(row) == row.type = "fs"

\* a call of get_root_instance on the instance id
CallGetRoot ==
    /\ walkPc = "idle"
    /\ \E id \in DOMAIN insts :
         /\ walkStart' = id
         /\ current' = id
    /\ walkOp' = "get_root_instance"
    /\ walkPc' = "loop"
    /\ steps' = 0
    /\ UNCHANGED <<queue, descendant_instances, walkResult>>
    /\ UNCHANGED notWalk

\* get_root_instance: the loop test and, when it holds, the loop body
RootStep ==
    /\ walkPc = "loop"
    /\ walkOp = "get_root_instance"
    /\ IF current = 0
       THEN /\ walkPc' = "ret"
            /\ walkResult' = RaisedError("AttributeError")
            /\ UNCHANGED <<current, steps>>
       ELSE IF IsRoot(insts[current])
       THEN /\ walkPc' = "ret"
            /\ walkResult' = Returned(current)
            /\ UNCHANGED <<current, steps>>
       ELSE /\ current' = insts[current].previous
            /\ steps' = IF steps < StepCap THEN steps + 1 ELSE steps
            /\ UNCHANGED <<walkPc, walkResult>>
    /\ UNCHANGED <<walkOp, walkStart, queue, descendant_instances>>
    /\ UNCHANGED notWalk

\* a call of get_descendant_instances on the instance id
CallGetDescendants ==
    /\ walkPc = "idle"
    /\ \E id \in DOMAIN insts :
         /\ walkStart' = id
         /\ queue' = <<id>>
    /\ walkOp' = "get_descendant_instances"
    /\ walkPc' = "loop"
    /\ descendant_instances' = <<>>
    /\ UNCHANGED <<current, steps, walkResult>>
    /\ UNCHANGED notWalk

\* get_descendant_instances: the loop test and, when it holds, the loop body
DescendantsStep ==
    /\ walkPc = "loop"
    /\ walkOp = "get_descendant_instances"
    /\ Len(descendant_instances) < VisitCap
    /\ IF Len(queue) > 0
       THEN LET visited == queue[Len(queue)]
            IN  /\ queue' = SubSeq(queue, 1, Len(queue) - 1) \o NextOf(visited)
                /\ descendant_instances' = Append(descendant_instances, visited)
                /\ UNCHANGED <<walkPc, walkResult>>
       ELSE /\ walkPc' = "ret"
            /\ walkResult' = Returned(descendant_instances)
            /\ UNCHANGED <<queue, descendant_instances>>
    /\ UNCHANGED <<walkOp, walkStart, current, steps>>
    /\ UNCHANGED notWalk

InitWalk ==
    /\ IdleStore
    /\ IdlePoll
    /\ IdlePipe
    /\ IdleWalk
    /\ IdleCallers
    /\ insts \in AnyInsts
    /\ feeds = <<>>
    /\ lastSave = NoSave
    /\ outNode = 0
    /\ output_path = <<>>

NextWalk == CallGetRoot \/ RootStep \/ CallGetDescendants \/ DescendantsStep

SpecWalk == InitWalk /\ [][NextWalk]_vars

\* the instance reached from id by following previous k times (0: None)
RECURSIVE Ancestor(_, _)
Ancestor(id, k) ==
    IF k = 0 \/ id = 0 THEN id ELSE Ancestor(insts[id].previous, k - 1)

\* the walk up from id never meets an 'fs' instance nor a missing previous:
\* it runs into a cycle
WalkIsCyclic(id) ==
    \A k \in 0..NumNodes :
        Ancestor(id, k) # 0 /\ insts[Ancestor(id, k)].type # "fs"

\* the instance id lies on a cycle of previous links
OnCycle(id) == \E k \in 1..NumNodes : Ancestor(id, k) = id

\* C6: on a lineage of n instances whose previous links run into a cycle,
\* get_root_instance stops within n+1 steps by raising LineageCycleDetected.
C6_RootWalkIsBounded ==
    (walkOp = "get_root_instance" /\ WalkIsCyclic(walkStart)) =>
        /\ steps <= NumNodes + 1
        /\ walkPc = "ret" =>
               walkResult = RaisedError("LineageCycleDetected")

\* C7: started on an instance that lies on a cycle, get_descendant_instances
\* visits at most (number of instances + 1) instances and then fails with
\* LineageCycleDetected.
C7_DescendantWalkIsBounded ==
    (walkOp = "get_descendant_instances" /\ OnCycle(walkStart)) =>
        /\ Len(descendant_instances) <= NumNodes + 1
        /\ walkPc = "ret" =>
               walkResult = RaisedError("LineageCycleDetected")

\* ------------------------------------------------------------------------
\* PluginInstance: creation, feeds and status
\* ------------------------------------------------------------------------

\* the most plugin instances that are created
MaxInsts == 3

Users == {"foo", "boo"}

\* the plugins an instance can run: type -> name
PluginNames == [fs |-> "pacspull", ds |-> "simpledsapp", ts |-> "topologicalcopy"]

\* a default that is the second status of the list: STATUS_TYPES[1]
SecondStatus == STATUS_TYPES[2]

\* status = models.CharField(max_length=30, default=STATUS_TYPES[0])
DefaultStatus == STATUS_TYPES[1]

TerminalStatuses == {STATUS_TYPES[2], STATUS_TYPES[3], STATUS_TYPES[4]}

\* save(), for an instance that has no feed attribute: the feed an 'fs'
\* instance gets is the new feed, the feed a 'ds' instance gets is the feed
\* of its previous instance, and no other type is given a feed (0: unset)
FeedOnSave(type, previous, newFeed) ==
    IF type = "fs" THEN newFeed
    ELSE IF type = "ds" THEN insts[previous].feed
    ELSE 0

\* a _save_feed that does not set the owner of the feed
FeedsAfterSaveNoOwner(type, owner, newFeed) ==
    IF type = "fs"
    THEN DictPut(feeds, newFeed, [name |-> PluginNames[type], owner |-> {}])
    ELSE feeds

\* _save_feed: a new Feed row named after the plugin, owned by the owner
FeedsAfterSave(type, owner, newFeed) ==
    IF type = "fs"
    THEN DictPut(feeds, newFeed, [name |-> PluginNames[type], owner |-> {owner}])
    ELSE feeds

\* PluginInstance.save of a new instance that was built without a feed.
\* super().save() inserts the row, unless the feed is still unset: feed is
\* not nullable and the insert fails (IntegrityError).
SaveNew ==
    /\ Cardinality(DOMAIN insts) < MaxInsts
    /\ \E type \in DOMAIN PluginNames, owner \in Users :
         \E previous \in (IF type = "fs" THEN {0} ELSE DOMAIN insts) :
           LET id == Cardinality(DOMAIN insts) + 1
               newFeed == Cardinality(DOMAIN feeds) + 1
               feed == FeedOnSave(type, previous, newFeed)
           IN  /\ feeds' = FeedsAfterSave(type, owner, newFeed)
               /\ insts' =
                    IF feed = 0 THEN insts
                    ELSE DictPut(insts, id,
                             [type |-> type, name |-> PluginNames[type],
                              previous |-> previous, feed |-> feed,
                              owner |-> owner, status |-> DefaultStatus])
               /\ lastSave' =
                    [id |-> IF feed = 0 THEN 0 ELSE id, type |-> type,
                     previous |-> previous, feed |-> feed, saved |-> feed # 0,
                     feeds_created |->
                         Cardinality(DOMAIN feeds') - Cardinality(DOMAIN feeds),
                     again |-> FALSE]
    /\ UNCHANGED <<outNode, output_path>>
    /\ UNCHANGED notLineage

\* The status of an instance is reported by the execution driver: a started
\* instance moves to finishedSuccessfully, finishedWithError or cancelled.
SetStatus ==
    /\ \E id \in DOMAIN insts, s \in TerminalStatuses :
         /\ insts[id].status = STATUS_TYPES[1]
         /\ insts' = [insts EXCEPT ![id].status = s]
    /\ UNCHANGED <<feeds, lastSave, outNode, output_path>>
    /\ UNCHANGED notLineage

\* save() of an instance that was saved before: the object has its feed
\* attribute, so no feed is made or assigned, and the row is written as it is
SaveAgain ==
    /\ \E id \in DOMAIN insts :
         lastSave' = [id |-> id, type |-> insts[id].type,
                      previous |-> insts[id].previous, feed |-> insts[id].feed,
                      saved |-> TRUE, feeds_created |-> 0, again |-> TRUE]
    /\ UNCHANGED <<insts, feeds, outNode, output_path>>
    /\ UNCHANGED notLineage

\* the characters of the plugin names and user names
Chars(name) ==
    CASE name = "pacspull" -> <<"p", "a", "c", "s", "p", "u", "l", "l">>
      [] name = "simpledsapp" -> <<"s", "i", "m", "p", "l", "e", "d", "s", "a", "p", "p">>
      [] name = "topologicalcopy" -> <<"t", "o", "p", "o", "l", "o", "g", "i", "c", "a", "l", "c", "o", "p", "y">>
      [] name = "foo" -> <<"f", "o", "o">>
      [] name = "boo" -> <<"b", "o", "o">>

\* a segment without the id of the instance: '/{0}'.format(name)
SegmentNoId(name, id) == <<"/">> \o Chars(name)

\* '/{0}_{1}'.format(current.plugin.name, current.id)
Segment(name, id) == <<"/">> \o Chars(name) \o <<"_">> \o StrOf(id)

\* the segment put behind the path instead of in front of it
PutBehind(segment, path) == path \o segment

\* path = '/{0}_{1}'.format(...) + path
PutInFront(segment, path) == segment \o path

\* the while loop of get_output_path: from current up to the 'fs' instance
RECURSIVE PathUp(_, _)
PathUp(cur, path) ==
    IF IsRoot(insts[cur]) THEN [current |-> cur, path |-> path]
    ELSE LET prev == insts[cur].previous
         IN  PathUp(prev, PutInFront(Segment(insts[prev].name, prev), path))

\* PluginInstance.get_output_path
get_output_path(id) ==
    LET up == PathUp(id, Segment(insts[id].name, id) \o <<"/", "d", "a", "t", "a">>)
    IN  Chars(insts[id].owner) \o <<"/", "f", "e", "e", "d", "_">>
            \o StrOf(insts[up.current].feed) \o up.path

\* a call of get_output_path on an instance
GetOutputPath ==
    /\ \E id \in DOMAIN insts :
         /\ outNode' = id
         /\ output_path' = get_output_path(id)
    /\ UNCHANGED <<insts, feeds, lastSave>>
    /\ UNCHANGED notLineage

InitLineage ==
    /\ IdleStore
    /\ IdlePoll
    /\ IdlePipe
    /\ IdleWalk
    /\ IdleCallers
    /\ IdleLineage

NextLineage == SaveNew \/ SaveAgain \/ SetStatus

SpecLineage == InitLineage /\ [][NextLineage]_vars

\* the instances are created and their output paths are asked for
NextOutputPath == SaveNew \/ GetOutputPath

SpecOutputPath == InitLineage /\ [][NextOutputPath]_vars

C9_FeedInherited ==
    /\ \A id \in DOMAIN insts :
           insts[id].previous # 0 =>
               insts[id].feed = insts[insts[id].previous].feed
    /\ (lastSave.type # "none" /\ ~lastSave.again /\ lastSave.previous # 0) =>
           /\ lastSave.feed = insts[lastSave.previous].feed
           /\ lastSave.feeds_created = 0
    /\ (lastSave.type # "none" /\ ~lastSave.again /\ lastSave.previous = 0) =>
           /\ lastSave.feeds_created = 1
           /\ lastSave.feed = Cardinality(DOMAIN feeds)

\* ------------------------------------------------------------------------
\* SwiftManager.sanitize_obj_names
\* ------------------------------------------------------------------------

\* the most objects the container holds when the first call is made
MaxObjs == 3

\* p_obj.relative_to(p) raises ValueError unless p's parts start p_obj's
IsRelativeTo(obj, path) ==
    LET pp == PathParts(path)
        po == PathParts(obj)
    IN  Len(pp) <= Len(po) /\ SubSeq(po, 1, Len(pp)) = pp

\* p_obj.relative_to(p).parts
RelativeParts(obj, path) ==
    LET pp == PathParts(path)
        po == PathParts(obj)
    IN  SubSeq(po, Len(pp) + 1, Len(po))

\* new_parts built without the test on new_part.strip(): blank parts stay
NewPartsKeepBlank(parts) == [n \in 1..Len(parts) |-> RemoveCommas(parts[n])]

\* new_parts: the parts without their commas, those that are then blank
\* left out
NewParts(parts) ==
    SelectSeq([n \in 1..Len(parts) |-> RemoveCommas(parts[n])],
              LAMBDA c : ~IsBlank(c))

\* the loop body without its test `if new_p_obj != p_obj`: every object
\* that is not deleted is copied, deleted and recorded
ObjActionAlways(path, obj) ==
    IF IsBlank(RemoveCommas(PathName(obj)))
    THEN [kind |-> "delete", new |-> <<>>]
    ELSE IF ~IsRelativeTo(obj, path)
    THEN [kind |-> "ValueError", new |-> <<>>]
    ELSE [kind |-> "move",
          new |-> JoinParts(PathParts(path)
                            \o PathOf(NewParts(RelativeParts(obj, path))))]

\* the body of the for loop for one listed object: what is done with it
ObjAction(path, obj) ==
    IF IsBlank(RemoveCommas(PathName(obj)))
    THEN [kind |-> "delete", new |-> <<>>]
    ELSE IF ~IsRelativeTo(obj, path)
    THEN [kind |-> "ValueError", new |-> <<>>]
    ELSE LET new_p_obj ==
                 PathParts(path) \o PathOf(NewParts(RelativeParts(obj, path)))
         IN  IF new_p_obj # PathParts(obj)
             THEN [kind |-> "move", new |-> JoinParts(new_p_obj)]
             ELSE [kind |-> "same", new |-> obj]

\* the position, from n on, of the next listed object the loop does
\* something with; Len(l_ls) + 1 when there is none
RECURSIVE NextWork(_, _, _)
NextWork(path, l_ls, n) ==
    IF n > Len(l_ls) THEN n
    ELSE IF ObjAction(path, l_ls[n]).kind = "same"
    THEN NextWork(path, l_ls, n + 1)
    ELSE n

\* if len(l_ls) != 1 or l_ls[0] != path
IsPrefix(l_ls, path) == Len(l_ls) # 1 \/ l_ls[1] # path

\* the loop goes on from the object after c.idx, up to its next call of a
\* primitive, to a ValueError or to the return of new_obj_paths
Continue(c) ==
    LET m == NextWork(c.path, c.l_ls, c.idx + 1)
        act == ObjAction(c.path, c.l_ls[m])
    IN  IF m > Len(c.l_ls)
        THEN /\ comp' = [c EXCEPT !.idx = m, !.phase = "finished"]
             /\ result' = Returned(c.new_obj_paths)
             /\ pc' = "ret"
             /\ UNCHANGED <<call, i, attempts, sleeps, connTries, connSleeps, fails>>
        ELSE IF act.kind = "ValueError"
        THEN /\ comp' = [c EXCEPT !.idx = m, !.phase = "raised"]
             /\ result' = [kind |-> "raise", value |-> "ValueError"]
             /\ pc' = "ret"
             /\ UNCHANGED <<call, i, attempts, sleeps, connTries, connSleeps, fails>>
        ELSE IF act.kind = "delete"
        THEN /\ comp' = [c EXCEPT !.idx = m, !.phase = "delete_blank"]
             /\ StartPrim("delete_obj", c.l_ls[m], <<>>, None)
        ELSE /\ comp' = [c EXCEPT !.idx = m, !.phase = "copy",
                                  !.new_obj_path = act.new]
             /\ StartPrim("copy_obj", c.l_ls[m], act.new, None)

PIPELINES == <<"P", "I", "P", "E", "L", "I", "N", "E", "S">>

SanitizePaths == {<<>>, <<"p">>, <<"p", "/", "a">>, <<"q">>, PIPELINES}

\* sanitize_obj_names(path) is called: new_obj_paths = {}; self.ls(path)
CallSanitize ==
    /\ pc = "idle"
    /\ \E path \in SanitizePaths :
         /\ comp' = [NoComp EXCEPT !.op = "sanitize_obj_names", !.path = path,
                                   !.phase = "ls"]
         /\ StartPrim("ls", path, <<>>, None)
    /\ before' = objects
    /\ done' = <<>>
    /\ UNCHANGED <<objects, conn>>
    /\ UNCHANGED notStore

\* sanitize_obj_names takes the result of the primitive it called and goes
\* on; an exception of the primitive leaves sanitize_obj_names as it is
SanitizeStep ==
    /\ pc = "ret"
    /\ comp.op = "sanitize_obj_names"
    /\ comp.phase \in {"ls", "delete_blank", "copy", "delete_moved"}
    /\ IF result.kind = "raise"
       THEN /\ comp' = [comp EXCEPT !.phase = "raised"]
            /\ UNCHANGED <<pc, call, i, attempts, sleeps, connTries, connSleeps, fails, result>>
       ELSE CASE comp.phase = "ls" ->
                     IF IsPrefix(result.value, comp.path)
                     THEN Continue([comp EXCEPT !.l_ls = result.value])
                     ELSE /\ comp' = [comp EXCEPT !.l_ls = result.value,
                                                  !.phase = "finished"]
                          /\ result' = Returned(comp.new_obj_paths)
                          /\ UNCHANGED <<pc, call, i, attempts, sleeps, connTries, connSleeps, fails>>
              [] comp.phase = "delete_blank" ->
                     Continue([comp EXCEPT !.new_obj_paths =
                         DictPut(comp.new_obj_paths, comp.l_ls[comp.idx], <<>>)])
              [] comp.phase = "copy" ->
                     /\ comp' = [comp EXCEPT !.phase = "delete_moved"]
                     /\ StartPrim("delete_obj", comp.l_ls[comp.idx], <<>>, None)
              [] comp.phase = "delete_moved" ->
                     Continue([comp EXCEPT !.new_obj_paths =
                         DictPut(comp.new_obj_paths, comp.l_ls[comp.idx],
                                 comp.new_obj_path)])
    /\ UNCHANGED <<objects, conn, before, done>>
    /\ UNCHANGED notStore

\* the keys an object can have before the first call
SanitizeKeys ==
    {<<"p", "/", "a">>,
     <<"p", "/", "a", ",", "b">>,
     <<"p", "/", ",", "/", "a">>,
     <<"p", "/", "a", "/", ",">>,
     <<"p", "/", "a", "/", ",", ".">>,
     <<"p", "/", " ", ",", "/", "b", ",">>,
     <<"p", "q", "/", "a">>,
     <<"q", "/", ",", "a">>,
     <<"P", "I", "P", "E", "L", "I", "N", "E", "S", "/", "a", ",", "b", "/", "c", ",", " ", ".", "t", "x", "t">>,
     <<"P", "I", "P", "E", "L", "I", "N", "E", "S", "/", "a", ",", "b", "/", " ", ",", ",", "/", "x", ".", "t", "x", "t">>}

\* a container of at most MaxObjs objects; the content of an object is the
\* key it was uploaded with
InitSanitize ==
    /\ IdlePoll
    /\ IdlePipe
    /\ IdleLineage
    /\ IdleWalk
    /\ IdleCallers
    /\ \E S \in SUBSET SanitizeKeys :
         /\ Cardinality(S) <= MaxObjs
         /\ objects = [k \in S |-> k]
    /\ conn = FALSE
    /\ pc = "idle"
    /\ call = NoCall
    /\ i = 0
    /\ attempts = 0
    /\ sleeps = 0
    /\ connTries = 0
    /\ connSleeps = 0
    /\ fails = 0
    /\ result = NoResult
    /\ comp = NoComp
    /\ before = <<>>
    /\ done = <<>>

NextSanitize == CallSanitize \/ SanitizeStep \/ Connect \/ Attempt \/ Return

SpecSanitize == InitSanitize /\ [][NextSanitize]_vars

\* s.join('/') of the components
RECURSIVE JoinSlash(_)
JoinSlash(parts) ==
    IF parts = <<>> THEN <<>>
    ELSE IF Len(parts) = 1 THEN parts[1]
    ELSE parts[1] \o <<"/">> \o JoinSlash(Tail(parts))

\* the components of a key below the prefix
BelowPrefix(key, path) ==
    LET parts == SplitSlash(key)
        n == IF path = <<>> THEN 0 ELSE Len(SplitSlash(path))
    IN  SubSeq(parts, n + 1, Len(parts))

\* the prefix followed by the components below it, without their commas,
\* those that are then empty or blank dropped
SanitizedKey(key, path) ==
    LET parts == SplitSlash(key)
        n == IF path = <<>> THEN 0 ELSE Len(SplitSlash(path))
        below == BelowPrefix(key, path)
        kept == SelectSeq([m \in 1..Len(below) |-> RemoveCommas(below[m])],
                          LAMBDA c : ~IsBlank(c))
    IN  JoinSlash(SubSeq(parts, 1, n) \o kept)

\* the last component of a key
LeafName(key) == LET parts == SplitSlash(key) IN parts[Len(parts)]

HasComma(s) == \E n \in 1..Len(s) : s[n] = ","

\* C10: when sanitize_obj_names(path) has completed on a prefix (a path
\* that is not empty), every object that was
\* listed under the prefix is deleted if its leaf name is empty or blank
\* without its commas, and is otherwise stored under its key with the commas
\* removed from every component below the prefix and the components that
\* are then blank dropped; no key left under the prefix has a comma in a
\* component below the prefix.
C10_SanitizedKeys ==
    (/\ pc = "ret"
     /\ comp.op = "sanitize_obj_names"
     /\ comp.phase = "finished"
     /\ comp.path # <<>>) =>
        /\ \A n \in 1..Len(comp.l_ls) :
               LET key == comp.l_ls[n]
               IN  IF IsBlank(RemoveCommas(LeafName(key)))
                   THEN key \notin DOMAIN objects \/ comp.l_ls = <<comp.path>>
                   ELSE SanitizedKey(key, comp.path) \in DOMAIN objects
        /\ \A key \in DOMAIN objects :
               StartsWith(key, comp.path) =>
                   \A m \in 1..Len(BelowPrefix(key, comp.path)) :
                       ~HasComma(BelowPrefix(key, comp.path)[m])

\* the two objects of the PIPELINES example
ExampleKeys ==
    {<<"P", "I", "P", "E", "L", "I", "N", "E", "S", "/", "a", ",", "b", "/", "c", ",", " ", ".", "t", "x", "t">>,
     <<"P", "I", "P", "E", "L", "I", "N", "E", "S", "/", "a", ",", "b", "/", " ", ",", ",", "/", "x", ".", "t", "x", "t">>}

\* sanitize_obj_names('PIPELINES') has completed on a container that held
\* exactly the two objects of the example
ExampleDone ==
    /\ pc = "ret"
    /\ comp.op = "sanitize_obj_names"
    /\ comp.phase = "finished"
    /\ comp.path = PIPELINES
    /\ before = [k \in ExampleKeys |-> k]

\* C11 as stated: the objects PIPELINES/a,b/c, .txt and
\* PIPELINES/a,b/ ,,/x.txt end up as PIPELINES/ab/c.txt and
\* PIPELINES/ab/x.txt, and both original keys are keys of the returned
\* mapping, neither mapped to itself.
C11_ExampleAsStated ==
    ExampleDone =>
        /\ DOMAIN objects =
               {<<"P", "I", "P", "E", "L", "I", "N", "E", "S", "/", "a", "b", "/", "c", ".", "t", "x", "t">>,
                <<"P", "I", "P", "E", "L", "I", "N", "E", "S", "/", "a", "b", "/", "x", ".", "t", "x", "t">>}
        /\ DOMAIN result.value = ExampleKeys
        /\ \A k \in ExampleKeys : result.value[k] # k

\* C11 amended: the first object ends up as PIPELINES/ab/c .txt (only the
\* comma is removed from its name, the space stays), the second as
\* PIPELINES/ab/x.txt; each holds the content of its original, the original
\* keys are gone, and the returned mapping maps each original key to its
\* new key.
C11_Example ==
    ExampleDone =>
        /\ DOMAIN objects =
               {<<"P", "I", "P", "E", "L", "I", "N", "E", "S", "/", "a", "b", "/", "c", " ", ".", "t", "x", "t">>,
                <<"P", "I", "P", "E", "L", "I", "N", "E", "S", "/", "a", "b", "/", "x", ".", "t", "x", "t">>}
        /\ objects[<<"P", "I", "P", "E", "L", "I", "N", "E", "S", "/", "a", "b", "/", "c", " ", ".", "t", "x", "t">>] =
               <<"P", "I", "P", "E", "L", "I", "N", "E", "S", "/", "a", ",", "b", "/", "c", ",", " ", ".", "t", "x", "t">>
        /\ objects[<<"P", "I", "P", "E", "L", "I", "N", "E", "S", "/", "a", "b", "/", "x", ".", "t", "x", "t">>] =
               <<"P", "I", "P", "E", "L", "I", "N", "E", "S", "/", "a", ",", "b", "/", " ", ",", ",", "/", "x", ".", "t", "x", "t">>
        /\ DOMAIN result.value = ExampleKeys
        /\ result.value[<<"P", "I", "P", "E", "L", "I", "N", "E", "S", "/", "a", ",", "b", "/", "c", ",", " ", ".", "t", "x", "t">>] =
               <<"P", "I", "P", "E", "L", "I", "N", "E", "S", "/", "a", "b", "/", "c", " ", ".", "t", "x", "t">>
        /\ result.value[<<"P", "I", "P", "E", "L", "I", "N", "E", "S", "/", "a", ",", "b", "/", " ", ",", ",", "/", "x", ".", "t", "x", "t">>] =
               <<"P", "I", "P", "E", "L", "I", "N", "E", "S", "/", "a", "b", "/", "x", ".", "t", "x", "t">>

\* C11 witness: the call on the example has completed and made its changes
C11_Witness ==
    /\ ExampleDone
    /\ <<"P", "I", "P", "E", "L", "I", "N", "E", "S", "/", "a", "b", "/", "x", ".", "t", "x", "t">> \in DOMAIN objects

\* the requests of kind op that the store has served for the current call
DoneOf(op) == {done[n] : n \in {m \in 1..Len(done) : done[m].op = op}}

\* C12: when sanitize_obj_names has completed, the returned mapping has
\* exactly the listed keys that were deleted from the store as its keys; an
\* entry with the empty string is an object that was deleted without a
\* copy, any other entry is an object that was copied to the key it maps to
\* (which is stored) and then deleted; a listed key that is not in the
\* mapping was neither copied nor deleted and is still stored; no entry
\* maps a key to itself.
C12_MappingIsTheChanges ==
    (pc = "ret" /\ comp.op = "sanitize_obj_names" /\ comp.phase = "finished") =>
        LET map == result.value
            copied == DoneOf("copy_obj")
            deleted == {d.path : d \in DoneOf("delete_obj")}
        IN  /\ DOMAIN map \subseteq Range(comp.l_ls)
            /\ deleted = DOMAIN map
            /\ {c.path : c \in copied} = {k \in DOMAIN map : map[k] # <<>>}
            /\ \A c \in copied : map[c.path] = c.dest
            /\ \A k \in DOMAIN map :
                   /\ map[k] # k
                   /\ k \notin DOMAIN objects
                   /\ map[k] # <<>> => map[k] \in DOMAIN objects
            /\ \A k \in Range(comp.l_ls) \ DOMAIN map :
                   /\ k \in DOMAIN objects
                   /\ k \in DOMAIN before

\* C12 witness: a completed call that renamed one object, deleted another
\* and left a third alone
C12_Witness ==
    /\ pc = "ret"
    /\ comp.op = "sanitize_obj_names"
    /\ comp.phase = "finished"
    /\ \E k \in DOMAIN result.value : result.value[k] = <<>>
    /\ \E k \in DOMAIN result.value : result.value[k] # <<>>
    /\ \E n \in 1..Len(comp.l_ls) : comp.l_ls[n] \notin DOMAIN result.value

\* ------------------------------------------------------------------------
\* SwiftManager.copy_path, move_path and delete_path
\* ------------------------------------------------------------------------

\* a path operation is only called while no key is longer than this
MaxKeyLen == 4

\* a path operation is only called while the container holds no more
\* objects than this
MaxPathObjs == 2

PathOps == {"copy_path", "move_path", "delete_path"}

\* str.replace(old, new, 1): the first occurrence of old is replaced
RECURSIVE ReplaceFirst(_, _, _)
ReplaceFirst(s, old, new) ==
    IF old = <<>> THEN new \o s
    ELSE IF Len(s) < Len(old) THEN s
    ELSE IF StartsWith(s, old) THEN new \o SubSeq(s, Len(old) + 1, Len(s))
    ELSE <<Head(s)>> \o ReplaceFirst(Tail(s), old, new)

\* a move that deletes the object instead of copying it first
FirstRequestDeleteFirst(op) == IF op = "copy_path" THEN "copy_obj" ELSE "delete_obj"

\* the first request of the loop body for one listed object
FirstRequest(op) == IF op = "delete_path" THEN "delete_obj" ELSE "copy_obj"

\* for obj_path in l_ls: the loop reaches position m of the listing
BodyFor(c, m) ==
    IF m > Len(c.l_ls)
    THEN /\ comp' = [c EXCEPT !.idx = m, !.phase = "finished"]
         /\ result' = Returned(None)
         /\ pc' = "ret"
         /\ UNCHANGED <<call, i, attempts, sleeps, connTries, connSleeps, fails>>
    ELSE /\ comp' = [c EXCEPT !.idx = m, !.phase = FirstRequest(c.op),
                              !.new_obj_path =
                                  ReplaceFirst(c.l_ls[m], c.path, c.dst)]
         /\ StartPrim(FirstRequest(c.op), c.l_ls[m],
                      IF FirstRequest(c.op) = "copy_obj"
                      THEN ReplaceFirst(c.l_ls[m], c.path, c.dst) ELSE <<>>,
                      None)

PathArgs == {<<"p">>, <<"q">>, <<"p", "p">>}

\* copy_path(src, dst), move_path(src, dst) or delete_path(path) is called:
\* l_ls = self.ls(src)
CallPathOp ==
    /\ pc = "idle"
    /\ \A k \in DOMAIN objects : Len(k) <= MaxKeyLen
    /\ Cardinality(DOMAIN objects) <= MaxPathObjs
    /\ \E op \in PathOps, src \in PathArgs :
         \E dst \in (IF op = "delete_path" THEN {<<>>} ELSE PathArgs) :
           /\ comp' = [NoComp EXCEPT !.op = op, !.path = src, !.dst = dst,
                                     !.phase = "ls"]
           /\ StartPrim("ls", src, <<>>, None)
    /\ before' = objects
    /\ done' = <<>>
    /\ UNCHANGED <<objects, conn>>
    /\ UNCHANGED notStore

\* the path operation takes the result of the primitive it called and goes
\* on; an exception of the primitive leaves the path operation as it is
PathStep ==
    /\ pc = "ret"
    /\ comp.op \in PathOps
    /\ comp.phase \in {"ls", "copy_obj", "delete_obj"}
    /\ IF result.kind = "raise"
       THEN /\ comp' = [comp EXCEPT !.phase = "raised"]
            /\ UNCHANGED <<pc, call, i, attempts, sleeps, connTries, connSleeps, fails, result>>
       ELSE CASE comp.phase = "ls" ->
                     BodyFor([comp EXCEPT !.l_ls = result.value], 1)
              [] comp.phase = "copy_obj" /\ comp.op = "move_path" ->
                     /\ comp' = [comp EXCEPT !.phase = "delete_obj"]
                     /\ StartPrim("delete_obj", comp.l_ls[comp.idx], <<>>, None)
              [] OTHER -> BodyFor(comp, comp.idx + 1)
    /\ UNCHANGED <<objects, conn, before, done>>
    /\ UNCHANGED notStore

\* the keys an object can have before the first call
PathKeys ==
    {<<"p", "/", "a">>, <<"p", "/", "b">>, <<"p", "p", "/", "a">>, <<"q", "/", "a">>}

InitPaths ==
    /\ IdlePoll
    /\ IdlePipe
    /\ IdleLineage
    /\ IdleWalk
    /\ IdleCallers
    /\ \E S \in SUBSET PathKeys :
         /\ Cardinality(S) <= MaxPathObjs
         /\ objects = [k \in S |-> k]
    /\ conn = FALSE
    /\ pc = "idle"
    /\ call = NoCall
    /\ i = 0
    /\ attempts = 0
    /\ sleeps = 0
    /\ connTries = 0
    /\ connSleeps = 0
    /\ fails = 0
    /\ result = NoResult
    /\ comp = NoComp
    /\ before = <<>>
    /\ done = <<>>

NextPaths == CallPathOp \/ PathStep \/ Connect \/ Attempt \/ Return

SpecPaths == InitPaths /\ [][NextPaths]_vars

\* the content that object key had when the call was made is stored at key k
StoredAt(key, k) == k \in DOMAIN objects /\ objects[k] = before[key]

\* the key in the destination prefix of a key of the source prefix
DestKey(key) == ReplaceFirst(key, comp.path, comp.dst)

\* C13: in every state during or after move_path(src, dst), for any src and
\* dst, and also after a failed request, the content of each object of the
\* initial listing is stored at its source key or at its destination key;
\* after a move_path that succeeded it is stored at its destination key and
\* its source key is gone.
C13_MoveKeepsContent ==
    (comp.op = "move_path" /\ comp.phase # "ls") =>
        \A n \in 1..Len(comp.l_ls) :
            LET key == comp.l_ls[n]
            IN  /\ StoredAt(key, key) \/ StoredAt(key, DestKey(key))
                /\ comp.phase = "finished" =>
                       /\ StoredAt(key, DestKey(key))
                       /\ key \notin DOMAIN objects

\* the requests a path operation makes for one listed key, in order
RequestsFor(op, key) ==
    LET copy == [op |-> "copy_obj", path |-> key, dest |-> LStripSlash(DestKey(key))]
        delete == [op |-> "delete_obj", path |-> key, dest |-> <<>>]
    IN  CASE op = "copy_path" -> <<copy>>
          [] op = "move_path" -> <<copy, delete>>
          [] OTHER -> <<delete>>

\* the requests for the first n keys of the listing, in order
RECURSIVE RequestsUpTo(_)
RequestsUpTo(n) ==
    IF n = 0 THEN <<>>
    ELSE RequestsUpTo(n - 1) \o RequestsFor(comp.op, comp.l_ls[n])

\* s is the start of t and shorter than t
IsProperPrefix(s, t) == Len(s) < Len(t) /\ SubSeq(t, 1, Len(s)) = s

\* the container after the requests reqs are applied, in order, to store
RECURSIVE Applied(_, _)
Applied(store, reqs) ==
    IF reqs = <<>> THEN store
    ELSE LET r == Head(reqs)
             next ==
                 IF r.op = "copy_obj"
                 THEN [k \in DOMAIN store \cup {r.dest} |->
                          IF k = r.dest THEN store[r.path] ELSE store[k]]
                 ELSE [k \in DOMAIN store \ {r.path} |-> store[k]]
         IN  Applied(next, Tail(reqs))

\* C14: copy_path, move_path and delete_path take the listing of the prefix
\* as it is when they are called and serve its keys in listing order.  When
\* a request for the k-th key has used up its tries, the error is raised to
\* the caller, every request for the keys before the k-th has been served,
\* no request was made for a key after the k-th, and what was done stays
\* done: the container is the one of the call with the served requests
\* applied.  When the operation returns, every request has been served.
C14_PartialFailure ==
    (comp.op \in PathOps /\ pc = "ret" /\ comp.phase \in {"raised", "finished"}) =>
        /\ objects = Applied(before, done)
        /\ comp.idx > 0 => comp.l_ls = SortedSeq({k \in DOMAIN before :
                                                     StartsWith(k, comp.path)})
        /\ IF comp.phase = "finished"
           THEN /\ result = Returned(None)
                /\ done = RequestsUpTo(Len(comp.l_ls))
           ELSE /\ result = Raised
                /\ IF comp.idx = 0
                   THEN done = <<>>
                   ELSE /\ comp.idx <= Len(comp.l_ls)
                        /\ \E rest \in {SubSeq(RequestsFor(comp.op, comp.l_ls[comp.idx]), 1, n) :
                                           n \in 0..Len(RequestsFor(comp.op, comp.l_ls[comp.idx]))} :
                               /\ IsProperPrefix(rest, RequestsFor(comp.op, comp.l_ls[comp.idx]))
                               /\ done = RequestsUpTo(comp.idx - 1) \o rest
                        /\ \A n \in (comp.idx + 1)..Len(comp.l_ls) :
                               \A m \in 1..Len(done) : done[m].path # comp.l_ls[n]

\* C14 witness: a move_path has raised at its second key, after it moved
\* the first
C14_Witness ==
    /\ comp.op = "move_path"
    /\ pc = "ret"
    /\ comp.phase = "raised"
    /\ comp.idx = 2
    /\ Len(done) >= 2
    /\ objects # before

\* ------------------------------------------------------------------------
\* More properties of the primitive operations
\* ------------------------------------------------------------------------

\* C15: create_container retries a failed request after the backoff and
\* raises only when the request has failed 5 times (after 5 requests and 4
\* sleeps).
C15_CreateContainerRetries ==
    (pc = "ret" /\ call.op = "create_container" /\ attempts > 0
        /\ result.kind = "raise") =>
        /\ fails = 5
        /\ attempts = 5
        /\ sleeps = 4

\* C16: obj_exists returns False on the first 404 answer, without a sleep
\* after it and without another request, also when transient failures came
\* before it in the same call (every request but the last failed and was
\* followed by one sleep); path_exists on a prefix under which there is no
\* object returns False after one listing that was served, and with no
\* sleep when no request of the call failed.
C16_NotFoundIsNotRetried ==
    [][/\ (pc = "attempt" /\ call.op = "obj_exists"
              /\ call.path \notin DOMAIN objects /\ fails' = fails) =>
              /\ pc' = "ret"
              /\ result' = Returned(FALSE)
              /\ sleeps' = sleeps
              /\ attempts' = attempts + 1
              /\ attempts' = fails + 1
              /\ sleeps = fails
       /\ (pc = "attempt" /\ call.op = "path_exists"
              /\ ~(\E k \in DOMAIN objects : StartsWith(k, call.path))
              /\ fails' = fails) =>
              /\ pc' = "ret"
              /\ result' = Returned(FALSE)
              /\ sleeps' = sleeps
              /\ attempts' = fails + 1
              /\ fails = 0 => (sleeps' = 0 /\ attempts' = 1)
      ]_vars

\* C16 witness: obj_exists has returned False for an absent object on a 404
\* that came after two transient failures
C16_Witness ==
    /\ pc = "ret"
    /\ call.op = "obj_exists"
    /\ call.path \notin DOMAIN objects
    /\ result = Returned(FALSE)
    /\ fails = 2
    /\ sleeps = 2
    /\ attempts = 3

\* C17: the connection is made by the first call that needs it and kept:
\* once a Connection(...) call has succeeded the client never connects
\* again, whatever calls and failures follow; making the connection takes
\* at most 5 Connection(...) calls, with a sleep after each failed one but
\* the 5th, and the failure of the 5th is raised to the caller.
C17_ConnectOnce ==
    [][/\ conn => (conn' /\ pc' # "connect" /\ connTries' \in {connTries, 0})
       /\ connTries' <= 5
       /\ (pc = "connect" /\ pc' = "connect") =>
              (connSleeps' = connSleeps + 1 /\ connTries' = connSleeps')
       /\ (pc = "connect" /\ pc' = "attempt") =>
              (conn' /\ connSleeps' = connSleeps /\ connTries' = connSleeps + 1)
       /\ (pc = "connect" /\ pc' = "ret") =>
              /\ result' = Raised
              /\ ~conn'
              /\ connTries' = 5
              /\ connSleeps' = 4
      ]_vars

\* C17 witness: a call is about to send its request over the connection that
\* an earlier call made, without connecting again
C17_Witness ==
    /\ conn
    /\ pc = "attempt"
    /\ connTries = 0
    /\ attempts = 0
    /\ call.op = "download_obj"

\* ------------------------------------------------------------------------
\* More properties of register_output_files
\* ------------------------------------------------------------------------

\* C18: register_output_files never lists more than 20 times; when it has
\* returned it has listed at least once, it has stopped before the 20th
\* listing only if the last listing was longer than the reported count, and
\* it has saved exactly one file per key of the last listing, in order,
\* whether or not that listing is shorter than the reported count (3
\* reported and 2 listed each time: 20 listings, 2 files).
C18_PollingIsBounded ==
    /\ pollLoop <= 20
    /\ pollPc = "done" =>
           /\ pollLoop >= 1
           /\ files = object_list
           /\ Len(object_list) <= reported => pollLoop = 20

\* C18 witness: 3 files were reported, the 20th listing had 2 objects and 2
\* files are registered
C18_Witness ==
    /\ pollPc = "done"
    /\ reported = 3
    /\ pollLoop = 20
    /\ Len(object_list) = 2
    /\ Len(files) = 2

\* ------------------------------------------------------------------------
\* The walks on well-formed lineages
\* ------------------------------------------------------------------------

\* the previous chain of the instance id ends, without a cycle, at an
\* instance of an 'fs' plugin
EndsAtFs(id) ==
    \E k \in 0..(NumNodes - 1) :
        /\ Ancestor(id, k) # 0
        /\ insts[Ancestor(id, k)].type = "fs"

\* C19: get_root_instance on an instance whose previous chain is acyclic
\* and ends at an 'fs' instance stops after fewer steps than there are
\* instances and returns the 'fs' instance at the top of that chain; on an
\* 'fs' instance it returns the instance itself.
C19_RootOfWellFormed ==
    (walkOp = "get_root_instance" /\ EndsAtFs(walkStart)) =>
        /\ steps < NumNodes
        /\ walkPc = "loop" => current # 0
        /\ walkPc = "ret" =>
               /\ walkResult.kind = "return"
               /\ insts[walkResult.value].type = "fs"
               /\ Ancestor(walkStart, steps) = walkResult.value
               /\ \A k \in 0..(steps - 1) :
                      insts[Ancestor(walkStart, k)].type # "fs"
               /\ insts[walkStart].type = "fs" => walkResult.value = walkStart

\* C19 witness: the root was returned for an instance two links below it
C19_Witness ==
    /\ walkOp = "get_root_instance"
    /\ walkPc = "ret"
    /\ walkResult.kind = "return"
    /\ steps = 2
    /\ walkResult.value # walkStart

\* the instance itself and the instances that reach it over previous links
Descendants(id) ==
    {n \in DOMAIN insts : \E k \in 0..NumNodes : Ancestor(n, k) = id}

\* C20: get_descendant_instances on an instance that is on no cycle of
\* previous links visits no more instances than there are and returns a
\* list that starts with the instance itself and holds the instance and
\* each of its descendants over next links exactly once and nothing else,
\* also when instances have several next instances.
C20_DescendantsOnce ==
    (walkOp = "get_descendant_instances" /\ ~OnCycle(walkStart)) =>
        /\ Len(descendant_instances) <= NumNodes
        /\ walkPc = "ret" =>
               /\ walkResult.kind = "return"
               /\ walkResult.value[1] = walkStart
               /\ Range(walkResult.value) = Descendants(walkStart)
               /\ Len(walkResult.value) = Cardinality(Descendants(walkStart))

\* C20 witness: the list was returned for an instance with two next
\* instances
C20_Witness ==
    /\ walkOp = "get_descendant_instances"
    /\ walkPc = "ret"
    /\ walkResult.kind = "return"
    /\ Len(NextOf(walkStart)) = 2
    /\ Len(walkResult.value) = 3

\* ------------------------------------------------------------------------
\* Output paths and feeds of the instances
\* ------------------------------------------------------------------------

\* how many previous links lie between the instance and its 'fs' root
RootDistance(id) ==
    CHOOSE k \in 0..MaxInsts :
        /\ insts[Ancestor(id, k)].type = "fs"
        /\ \A j \in 0..(k - 1) : insts[Ancestor(id, j)].type # "fs"

\* the segments '/<plugin name>_<id>' of the instances from the one k links
\* above id down to id itself
RECURSIVE SegmentsFrom(_, _)
SegmentsFrom(id, k) ==
    LET n == Ancestor(id, k)
        seg == <<"/">> \o Chars(insts[n].name) \o <<"_">> \o StrOf(n)
    IN  IF k = 0 THEN seg ELSE seg \o SegmentsFrom(id, k - 1)

\* C21: get_output_path of an instance returns the owner's username,
\* '/feed_' and the id of the feed, then '/<plugin name>_<id>' for each
\* instance of the previous chain from the 'fs' root down to the instance,
\* then '/data'.
C21_OutputPath ==
    outNode # 0 =>
        output_path =
            Chars(insts[outNode].owner) \o <<"/", "f", "e", "e", "d", "_">>
                \o StrOf(insts[outNode].feed)
                \o SegmentsFrom(outNode, RootDistance(outNode))
                \o <<"/", "d", "a", "t", "a">>

\* C21 witness: the path of an instance two links below its root was
\* returned
C21_Witness ==
    /\ outNode # 0
    /\ RootDistance(outNode) = 2
    /\ Len(output_path) > 0

\* C22: a save of a new instance of an 'fs' plugin makes exactly one feed,
\* which no instance had before, owned by the owner of the instance and by
\* nobody else, and gives it to the instance; a save of an instance that was
\* saved before makes no feed and changes no feed and no instance.
C22_OneFeedPerFsInstance ==
    [][/\ (lastSave' # lastSave /\ ~lastSave'.again /\ lastSave'.type = "fs") =>
              LET id == lastSave'.id
                  made == DOMAIN feeds' \ DOMAIN feeds
              IN  /\ id \notin DOMAIN insts
                  /\ id \in DOMAIN insts'
                  /\ Cardinality(made) = 1
                  /\ insts'[id].feed \in made
                  /\ \A n \in DOMAIN insts : insts[n].feed # insts'[id].feed
                  /\ feeds'[insts'[id].feed].owner = {insts'[id].owner}
                  /\ \A f \in DOMAIN feeds : feeds'[f] = feeds[f]
       /\ (lastSave' # lastSave /\ lastSave'.again) =>
              /\ feeds' = feeds
              /\ insts' = insts
              /\ lastSave'.feed = insts[lastSave'.id].feed
      ]_vars

\* C22 witness: a second 'fs' instance was saved, for another owner, and
\* then saved again
C22_Witness ==
    /\ lastSave.again
    /\ lastSave.type = "fs"
    /\ lastSave.id = 2
    /\ insts[1].type = "fs"
    /\ insts[1].owner # insts[2].owner
    /\ Cardinality(DOMAIN feeds) = 2

\* C30: no two instances have the same output path.
C30_OutputPathsDiffer ==
    /\ \A a, b \in DOMAIN insts :
           a # b => get_output_path(a) # get_output_path(b)
    /\ \A n \in DOMAIN insts :
           (outNode # 0 /\ n # outNode) => get_output_path(n) # output_path

\* C30 witness: the path of one of two instances of the same plugin with the
\* same previous instance was returned
C30_Witness ==
    /\ outNode = 3
    /\ insts[3].previous = 1
    /\ insts[2].previous = 1
    /\ insts[2].name = insts[3].name
    /\ insts[2].owner = insts[3].owner

\* ------------------------------------------------------------------------
\* More properties of the plan and of the default parameters
\* ------------------------------------------------------------------------

\* the value of the default row of the parameter name of the piping id
DefaultOf(id, name) ==
    (CHOOSE d \in defaults : d.piping = id /\ d.param = name).value

\* the titles of the pipings whose ids a comma-separated list names
TitlesOf(value) ==
    LET ids == SplitComma(value)
    IN  JoinComma([m \in 1..Len(ids) |-> Title(IntOf(ids[m]))])

\* C23: get_plugin_tree does not fail on the rewrite of a plugininstances
\* default; in the plan it returns, a non-empty default of the parameter
\* plugininstances of a 'ts' piping is the list of the titles of the pipings
\* its ids name, as long and in the same order, and every other default,
\* an empty plugininstances default too, is the value of its default row.
C23_TsDefaultsAreTitles ==
    pipePc = "get_plugin_tree" =>
        /\ planOut # RaisedError("KeyError")
        /\ planOut.kind = "return" =>
               \A n \in 1..Len(planOut.value) :
                   LET node == planOut.value[n]
                       id == IdOfTitle(node.title)
                   IN  \A m \in 1..Len(node.plugin_parameter_defaults) :
                           LET d == node.plugin_parameter_defaults[m]
                               v == DefaultOf(id, d.name)
                           IN  IF /\ Plugins[pipings[id].plugin].type = "ts"
                                  /\ d.name = "plugininstances"
                                  /\ v # <<>>
                               THEN /\ d.default = TitlesOf(v)
                                    /\ Len(SplitComma(d.default)) = Len(SplitComma(v))
                               ELSE d.default = v

\* ------------------------------------------------------------------------
\* PluginPiping.save and check_parameter_defaults
\* ------------------------------------------------------------------------

\* the most pipings that are saved
MaxSaved == 2

\* a null value of a default row (None where a string is expected)
Null == <<None>>

\* parameter.get_default(): the value of the plugin parameter's own default,
\* null for a parameter that has none
OwnDefault(plugin, name) ==
    CASE plugin = "ds_a" /\ name = "a" -> <<"5">>
      [] plugin = "ds_xy" /\ name = "y" -> <<"b">>
      [] OTHER -> Null

\* the values a caller passes as the default of a parameter
GivenValues == {<<"7">>, Null}

\* the parameter_defaults a caller can pass for a plugin: nothing, or the
\* default of one parameter
ParameterDefaults(plugin) ==
    {<<>>} \cup
    {<<[name |-> Plugins[plugin].params[n].name, default |-> v]>> :
        n \in 1..Len(Plugins[plugin].params), v \in GivenValues}

\* param = [d for d in param_defaults if d['name'] == parameter.name]
Given(param_defaults, name) == SelectSeq(param_defaults, LAMBDA d : d.name = name)

\* the value of a record that is first created: the value given, else the
\* plugin parameter's own default, else null
NewValue(param, own) == IF param # <<>> THEN param[1].default ELSE own

\* an existing record that is reset to null when no value is given
KeptValueOrNull(param, old) == IF param # <<>> THEN param[1].default ELSE Null

\* the value of a record that exists: the value given, else the one it has
KeptValue(param, old) == IF param # <<>> THEN param[1].default ELSE old

\* the default rows after the save of piping id with plugin and arguments
DefaultsAfterSave(id, plugin, param_defaults) ==
    LET params == Plugins[plugin].params
        others == {d \in defaults : d.piping # id}
        rowOf(n) ==
            LET parameter == params[n]
                param == Given(param_defaults, parameter.name)
                found == {d \in defaults :
                             d.piping = id /\ d.param = parameter.name}
            IN  IF found = {}
                THEN {[piping |-> id, param |-> parameter.name,
                       type |-> parameter.type,
                       value |-> NewValue(param, OwnDefault(plugin, parameter.name))]}
                ELSE {[d EXCEPT !.value = KeptValue(param, d.value)] : d \in found}
    IN  others \cup UNION {rowOf(n) : n \in 1..Len(params)}

\* the rows a saved piping can have: the first is the root
SavedRows(id) ==
    IF id = 1 THEN [previous : {0}, plugin : {"fs_dir"}]
    ELSE [previous : 1..(id - 1), plugin : {"ds_a", "ds_bare", "ds_xy"}]

\* PluginPiping.save(parameter_defaults=...) of a new piping or of one that
\* was saved before
PipingSave ==
    /\ pipePc = "idle"
    /\ \E id \in 1..MaxSaved :
         /\ id <= Len(pipings) + 1
         /\ \E row \in (IF id \in DOMAIN pipings THEN {pipings[id]}
                        ELSE SavedRows(id)) :
              \E param_defaults \in ParameterDefaults(row.plugin) :
                /\ pipings' = DictPut(pipings, id, row)
                /\ defaults' = DefaultsAfterSave(id, row.plugin, param_defaults)
                /\ pipingSave' = [id |-> id, parameter_defaults |-> param_defaults]
    /\ UNCHANGED <<pipePc, pipingsOrder, defaultsOrder, treeOut, planOut, checkOut>>
    /\ UNCHANGED notPipe

\* a test that finds no value missing
IsMissingNever(row) == FALSE

\* if parameter.value is None
IsMissing(row) == row.value = Null

\* DEFAULT_PIPING_PARAMETER_MODELS: the types in the order of the dict
ParameterTypes == <<"string", "integer", "float", "boolean">>

\* the rows PluginPiping.check_parameter_defaults can visit, in the orders it
\* can visit them: type by type, the rows of a type in an order the
\* database chooses
RECURSIVE TypedRows(_, _)
TypedRows(id, t) ==
    IF t > Len(ParameterTypes) THEN {<<>>}
    ELSE {rows \o rest :
             rows \in Perms({d \in defaults :
                                d.piping = id /\ d.type = ParameterTypes[t]}),
             rest \in TypedRows(id, t + 1)}

\* the rows Pipeline.check_parameter_defaults can visit for the pipings in
\* the given order
RECURSIVE VisitedRows(_)
VisitedRows(order) ==
    IF order = <<>> THEN {<<>>}
    ELSE {rows \o rest : rows \in TypedRows(Head(order), 1),
                         rest \in VisitedRows(Tail(order))}

\* the outcome of the visit: ValueError for the first row whose value is
\* missing, None when there is none
CheckRows(rows) ==
    LET gaps == {n \in 1..Len(rows) : IsMissing(rows[n])}
    IN  IF gaps = {} THEN [kind |-> "return", value |-> None]
        ELSE LET n == CHOOSE m \in gaps : \A l \in gaps : m <= l
             IN  [kind |-> "raise", value |-> "ValueError", name |-> rows[n].param]

\* a call of Pipeline.check_parameter_defaults
CheckParameterDefaults ==
    /\ pipePc = "idle"
    /\ pipings # <<>>
    /\ \E order \in Perms(DOMAIN pipings) :
         \E rows \in VisitedRows(order) :
           /\ pipingsOrder' = order
           /\ defaultsOrder' = rows
           /\ checkOut' = CheckRows(rows)
    /\ pipePc' = "check_parameter_defaults"
    /\ UNCHANGED <<pipings, defaults, treeOut, planOut, pipingSave>>
    /\ UNCHANGED notPipe

InitPiping ==
    IdleStore /\ IdlePoll /\ IdlePipe /\ IdleLineage /\ IdleWalk /\ IdleCallers

NextPiping == PipingSave \/ CheckParameterDefaults

SpecPiping == InitPiping /\ [][NextPiping]_vars

\* the names of the parameters of the plugin of the piping id
ParamNames(id) ==
    {Plugins[pipings[id].plugin].params[n].name :
        n \in 1..Len(Plugins[pipings[id].plugin].params)}

C28_OneDefaultPerParameter ==
    [][pipingSave' # pipingSave =>
          LET id == pipingSave'.id
              given == pipingSave'.parameter_defaults
          IN  /\ \A q \in DOMAIN pipings' : \A name \in
                     {Plugins[pipings'[q].plugin].params[n].name :
                         n \in 1..Len(Plugins[pipings'[q].plugin].params)} :
                     Cardinality({d \in defaults' :
                                     d.piping = q /\ d.param = name}) = 1
              /\ {d \in defaults' : d.piping # id} = {d \in defaults : d.piping # id}
              /\ \A d \in {e \in defaults' : e.piping = id} :
                     LET old == {e \in defaults : e.piping = id /\ e.param = d.param}
                         passed == {n \in 1..Len(given) : given[n].name = d.param}
                     IN  IF passed # {}
                         THEN \E n \in passed : d.value = given[n].default
                         ELSE IF old # {}
                         THEN \E e \in old : d.value = e.value
                         ELSE d.value = OwnDefault(pipings'[id].plugin, d.param)
      ]_vars

\* C28 witness: a piping whose parameter x was given a value by an earlier
\* save was saved again with a value for y only
C28_Witness ==
    /\ pipingSave.id = 2
    /\ pipingSave.parameter_defaults # <<>>
    /\ pipingSave.parameter_defaults[1].name = "y"
    /\ \E d \in defaults : d.piping = 2 /\ d.param = "x" /\ d.value = <<"7">>

\* ------------------------------------------------------------------------
\* More of the Swift client
\* ------------------------------------------------------------------------

\* C25: ls('') returns the empty list, and path_exists('') False, without
\* a connection attempt and without a listing request, whether the client
\* is connected or not; the client's connection and the stored objects are
\* left as they were.
C25_EmptyPrefixContactsNothing ==
    (pc # "idle" /\ call.op \in {"ls", "path_exists"} /\ call.path = <<>>) =>
        /\ pc = "ret"
        /\ connTries = 0
        /\ connSleeps = 0
        /\ attempts = 0
        /\ sleeps = 0
        /\ objects = before
        /\ result = IF call.op = "ls" THEN Returned(<<>>) ELSE Returned(FALSE)

\* C25 witness: ls('') has returned on a client that never connected
C25_Witness ==
    /\ pc = "ret"
    /\ call.op = "ls"
    /\ call.path = <<>>
    /\ ~conn
    /\ result = Returned(<<>>)

\* C26: the listings of register_output_files are retried: one failed
\* listing request does not abort the registration, so no single request
\* takes it from polling to raised.
C26_ListingIsRetried ==
    [][pollPc = "polling" => pollPc' # "raised"]_vars

\* C27: when sanitize_obj_names(path) has completed, the content of every
\* object that was listed under the prefix and whose leaf name is not blank
\* without its commas is still stored: two listed objects never end up at
\* the same key and no renamed object replaces the content of another.
C27_NoContentLost ==
    (/\ pc = "ret"
     /\ comp.op = "sanitize_obj_names"
     /\ comp.phase = "finished") =>
        \A n \in 1..Len(comp.l_ls) :
            LET key == comp.l_ls[n]
            IN  ~IsBlank(RemoveCommas(LeafName(key))) =>
                    \E k \in DOMAIN objects : objects[k] = before[key]

\* ------------------------------------------------------------------------
\* Several callers of one SwiftManager
\* ------------------------------------------------------------------------

\* a caller invokes an operation of the client, which calls __get_connection
CallerCall(c) ==
    /\ callerPc[c] = "idle"
    /\ callerPc' = [callerPc EXCEPT ![c] = "check"]
    /\ callerI' = [callerI EXCEPT ![c] = 0]
    /\ callerConn' = [callerConn EXCEPT ![c] = 0]
    /\ UNCHANGED <<selfConn, connections>>
    /\ UNCHANGED notCallers

\* if self._conn is not None: return self._conn
CallerCheck(c) ==
    /\ callerPc[c] = "check"
    /\ IF selfConn # 0
       THEN /\ callerConn' = [callerConn EXCEPT ![c] = selfConn]
            /\ callerPc' = [callerPc EXCEPT ![c] = "using"]
       ELSE /\ callerPc' = [callerPc EXCEPT ![c] = "connecting"]
            /\ UNCHANGED callerConn
    /\ UNCHANGED <<selfConn, connections, callerI>>
    /\ UNCHANGED notCallers

\* one pass of the loop: self._conn = Connection(**self.conn_params), or
\* the ClientException it raises
CallerConnect(c) ==
    /\ callerPc[c] = "connecting"
    /\ \E ok \in BOOLEAN :
         IF ok
         THEN /\ connections' = connections + 1
              /\ selfConn' = connections + 1
              /\ callerPc' = [callerPc EXCEPT ![c] = "return"]
              /\ UNCHANGED callerI
         ELSE /\ IF GiveUp(callerI[c])
                 THEN /\ callerPc' = [callerPc EXCEPT ![c] = "raised"]
                      /\ UNCHANGED callerI
                 ELSE /\ callerI' = [callerI EXCEPT ![c] = callerI[c] + 1]
                      /\ UNCHANGED callerPc
              /\ UNCHANGED <<selfConn, connections>>
    /\ UNCHANGED callerConn
    /\ UNCHANGED notCallers

\* else: return self._conn
CallerReturn(c) ==
    /\ callerPc[c] = "return"
    /\ callerConn' = [callerConn EXCEPT ![c] = selfConn]
    /\ callerPc' = [callerPc EXCEPT ![c] = "using"]
    /\ UNCHANGED <<selfConn, connections, callerI>>
    /\ UNCHANGED notCallers

\* the operation of the caller ends, with its result or with the exception
CallerDone(c) ==
    /\ callerPc[c] \in {"using", "raised"}
    /\ callerPc' = [callerPc EXCEPT ![c] = "idle"]
    /\ callerConn' = [callerConn EXCEPT ![c] = 0]
    /\ UNCHANGED <<selfConn, connections, callerI>>
    /\ UNCHANGED notCallers

InitCallers ==
    IdleStore /\ IdlePoll /\ IdlePipe /\ IdleLineage /\ IdleWalk /\ IdleCallers

NextCallers ==
    \E c \in Callers :
        \/ CallerCall(c)
        \/ CallerCheck(c)
        \/ CallerConnect(c)
        \/ CallerReturn(c)
        \/ CallerDone(c)

SpecCallers == InitCallers /\ [][NextCallers]_vars

\* C29: however the first calls of several callers interleave, at most one
\* connection is made, and the connection a caller is using is the one the
\* client holds: it was not replaced by another caller's.
C29_ConnectsAtMostOnce ==
    /\ connections <= 1
    /\ \A c \in Callers : callerPc[c] = "using" => callerConn[c] = selfConn

====
